---- MODULE Spec2Model ----
(***************************************************************************)
(* Blueprint execution engine (src/src/blueprint/engine.ts) driven by the  *)
(* harness orchestrator runHarness.  The repository carries three          *)
(* revisions of runHarness, and a run uses one of them:                    *)
(*   "h1"  src/src/harness.ts:25-86    reporter.nodeStart and nodeOutput   *)
(*                                     are called by the agent executor    *)
(*   "h2"  src/unnamed/part_011:29-114 onNodeComplete calls nodeComplete,  *)
(*                                     then nodeOutput                     *)
(*   "h3"  src/src/harness.ts:122-233  onNodeComplete calls nodeOutput,    *)
(*                                     then nodeComplete; push/PR flow     *)
(* h2 and h3 hand an onNodeStart callback to executeBlueprint, whose       *)
(* EngineOptions has no such member: the engine never calls it.            *)
(*                                                                         *)
(* A behaviour is one run.  Init fixes the blueprint, the revision and     *)
(* opts.push; what a node body, a step, the agent, the push flow or a      *)
(* reporter callback does is drawn when the code reaches it.  trace keeps  *)
(* every call of a body, step or agent and every reporter call, in order.  *)
(*                                                                         *)
(* Spec runs blueprints of up to MaxNodes nodes of every kind; its         *)
(* validate nodes have up to MaxRunSteps steps and the default maxRetries. *)
(* SpecValidate runs blueprints of one validate node, with every choice of *)
(* maxRetries, up to MaxSteps steps, steps that fail with or without an    *)
(* error and a repair that may itself fail.  SpecRepeating runs blueprints *)
(* of exact and validate nodes in which a node name may occur twice.       *)
(* SpecFair runs blueprints of a validate node, alone or behind an exact   *)
(* node, under weak fairness of Next: every awaited call settles.  The     *)
(* push flow of the current revision leaves in the trace the calls it      *)
(* makes of the sandbox and of createPR.                                   *)
(*                                                                         *)
(* The sandbox of a run has its own variables.  SpecSandbox follows one    *)
(* sandbox of either backend (src/src/sandbox/local.ts, and the remote one *)
(* of src/unnamed/part_010) through its factory and through teardown()     *)
(* calls that may overlap; every await of the backend can succeed or fail. *)
(* SpecExec makes one exec() call on a created sandbox, with the cwd, the  *)
(* env keys and the argv drawn from bounded sets.  SpecSession follows a   *)
(* remote sandbox from its factory through one exec() call and its         *)
(* teardown() calls; ops keeps what the sandbox object asked of its        *)
(* backend.  SpecFiles makes one uploadFiles() or snapshot() call on a     *)
(* created sandbox.  SpecScenario runs one blueprint: an exact node that   *)
(* succeeds, then a validate node of one step with maxRetries 2.           *)
(*                                                                         *)
(* The utilities are pure functions, applied once per behaviour to an      *)
(* input drawn from a bounded set: SpecSanitize applies the sanitize of    *)
(* the console reporter (src/unnamed/part_012) or of the JSON reporter     *)
(* (src/src/reporter/json.ts, two revisions) to a text, SpecConfine        *)
(* applies assertPathConfined (src/unnamed/part_014) to a root and to the  *)
(* root itself, its sibling or its parent, SpecConfineAny applies it to    *)
(* any root and any candidate, SpecRedact applies redact                   *)
(* (src/unnamed/part_014) to a text and an env map, and SpecQuote applies  *)
(* shellQuote (src/unnamed/part_015) to an argument vector.  Texts are     *)
(* sequences of characters.                                                *)
(***************************************************************************)
EXTENDS Integers, Sequences, FiniteSets, TLC

VARIABLES
    harness,        \* revision of runHarness in use
    bp,             \* opts.blueprint.nodes
    optsPush,       \* opts.push
    pc,             \* position of the run
    i,              \* index of the current node in bp (for .. of bp.nodes)
    attempt,        \* executeValidateNode: attempt
    stepResults,    \* executeValidateNode: stepResults of the running attempt
    nodeResults,    \* executeBlueprint: nodeResults
    ctxResults,     \* ctx.results
    trace,          \* everything that happened, in order: body calls and reporter calls
    exc,            \* an exception is propagating
    sandboxCreated, \* createSandbox resolved
    teardowns,      \* number of sandbox.teardown() calls
    pushResult,     \* pushResult of runHarness
    settled,        \* how the promise of runHarness settled
    finalReport     \* value runHarness resolved with

\* the sandbox of a run, seen from inside createLocalSandbox / createDaytonaSandbox
VARIABLES
    backend,        \* "local" (local.ts) or "remote" (part_010)
    cpc,            \* position of the factory that creates the sandbox
    caught,         \* err of the factory's catch block, "none" without
    createError,    \* the error the factory threw to its caller, "none" without
    resources,      \* backend resources that exist
    releases,       \* release operations issued to the backend, in order
    tornDown,       \* let tornDown of the sandbox object
    tpc,            \* position of each teardown() call
    lastExec,       \* the latest exec() call: its input and what it did
    ops,            \* operations the sandbox object asked of its backend, in order
    lastCall        \* the latest uploadFiles() or snapshot() call and what it did

\* the utilities: a reporter's sanitize(text), assertPathConfined, redact and
\* shellQuote
VARIABLES
    sanitized,      \* the latest sanitize(text) call of a reporter
    confined,       \* the latest assertPathConfined(candidate, root) call
    redacted,       \* the latest redact(output, env) call
    quoted          \* the latest shellQuote(argv) call

runVars == <<harness, bp, optsPush, pc, i, attempt, stepResults, nodeResults,
             ctxResults, trace, exc, sandboxCreated, teardowns, pushResult,
             settled, finalReport>>

\* what a method of a created sandbox other than exec, and a utility, changes
callVars == <<lastCall, sanitized, confined, redacted, quoted>>

sandboxVars == <<backend, cpc, caught, createError, resources, releases,
                 tornDown, tpc, lastExec, ops, callVars>>

vars == <<harness, bp, optsPush, pc, i, attempt, stepResults, nodeResults,
          ctxResults, trace, exc, sandboxCreated, teardowns, pushResult,
          settled, finalReport, backend, cpc, caught, createError, resources,
          releases, tornDown, tpc, lastExec, ops, lastCall, sanitized, confined,
          redacted, quoted>>

----------------------------------------------------------------------------
(* Bounds *)

\* nodes of a blueprint
MaxNodes == 2

\* steps of a validate node in a blueprint of several nodes
MaxRunSteps == 1

\* steps of the validate node of a blueprint of one validate node
MaxSteps == 2

\* largest maxRetries a validate node names
MaxRetriesCfg == 1

\* teardown() calls made on one sandbox
MaxTeardownCalls == 2

\* segments of the cwd handed to exec
MaxPathLen == 2

\* characters of an env key handed to exec
MaxKeyLen == 2

\* longest text handed to sanitize
MaxTextLen == 9

\* MAX_OUTPUT_BYTES: 50 KiB in the code, kept below MaxTextLen here so that
\* texts longer than the limit exist
MaxOutputBytes == 4

\* the largest number of characters of one argument of shellQuote
MaxArgLen == 2

----------------------------------------------------------------------------
(* Values *)

Undefined == "undefined"

DefaultMaxRetries == 2

DefaultValidateError == "Validation failed after max retries"

HarnessRevs == {"h1", "h2", "h3"}

NodeTypes == {"preflight", "deterministic", "agentic", "validate"}

\* NodeResult: output is a string, kept as a sequence of characters
Result(st, out, dur, err) ==
    [status |-> st, output |-> out, durationMs |-> dur, error |-> err]

\* outcome of a call that throws instead of returning a NodeResult
Throw == Result("throw", <<>>, 0, Undefined)

\* what the body of a gate, exact or delegated node can do: return a success
\* with or without output, return a failure, or throw
NodeOutcomes ==
    { Result("success", <<"a">>, 1, Undefined),
      Result("success", <<>>, 2, Undefined),
      Result("failure", <<"b">>, 1, "boom"),
      Throw }

\* what the agent can do when it runs a repair node: return a success,
\* return a failure, or throw
RepairOk == Result("success", <<"r">>, 1, Undefined)

RepairFail == Result("failure", <<>>, 1, "unfixed")

PlainRepair == {RepairOk, Throw}

RichRepair == {RepairOk, RepairFail, Throw}

StepChar == <<"1", "2", "3", "4">>

StepError == <<"e1", "e2", "e3", "e4">>

\* step j of a validate node: it passes with its own output and duration,
\* fails with its own error, or throws
StepOk(j) == Result("success", <<StepChar[j]>>, j, Undefined)

StepFail(j) == Result("failure", <<"x">>, 1, StepError[j])

\* a failing step whose NodeResult carries no error field
StepFailNoError(j) == Result("failure", <<>>, 0, Undefined)

PlainStep(j) == {StepOk(j), StepFail(j), Throw}

RichStep(j) == {StepOk(j), StepFail(j), StepFailNoError(j), Throw}

NodeName(k) == <<"node", k>>

RepairName(k) == <<"fix", k>>

NoName == <<"none", 0>>

\* a gate (preflight), exact (deterministic) or delegated (agentic) node
Simple(k, ty) ==
    [name |-> NodeName(k), type |-> ty, exec |-> NodeOutcomes, steps |-> <<>>,
     maxRetries |-> <<>>, onFailure |-> NoName, repair |-> {}]

\* a validate node; maxRetries is <<>> when the node leaves it undefined,
\* <<m>> when it is m
Validate(k, steps, mr, repair) ==
    [name |-> NodeName(k), type |-> "validate", exec |-> {}, steps |-> steps,
     maxRetries |-> mr, onFailure |-> RepairName(k), repair |-> repair]

MaxRetriesChoices == {<<>>} \cup { <<m>> : m \in 0..MaxRetriesCfg }

\* the nodes that can stand at position k of a blueprint of several nodes:
\* a gate, exact or delegated node, or a validate node of 1..MaxRunSteps
\* steps with the default maxRetries
NodesAt(k) ==
    { Simple(k, ty) : ty \in NodeTypes \ {"validate"} }
    \cup { Validate(k, [j \in 1..ns |-> PlainStep(j)], <<>>, PlainRepair) :
             ns \in 1..MaxRunSteps }

Blueprints ==
    UNION { { s \in [1..n -> UNION { NodesAt(k) : k \in 1..n }] :
                \A k \in 1..n : s[k] \in NodesAt(k) } : n \in 0..MaxNodes }

\* blueprints of one validate node, with every choice of maxRetries, with or
\* without steps, whose steps may also fail without an error and whose repair
\* may also return a failure
ValidateBlueprints ==
    { <<Validate(1, [j \in 1..ns |-> RichStep(j)], mr, RichRepair)>> :
        ns \in 0..MaxSteps, mr \in MaxRetriesChoices }

\* the blueprint of an exact node that always succeeds and a validate node of
\* one step with a repair node and maxRetries 2
ScenarioBlueprints ==
    { << [Simple(1, "deterministic") EXCEPT
            !.exec = {Result("success", <<"a">>, 1, Undefined)}],
         Validate(2, <<{StepOk(1), StepFail(1)}>>, <<2>>, {RepairOk}) >> }

\* blueprints of a validate node with every choice of maxRetries, alone or
\* behind an exact node
RetryBlueprints ==
    { <<Validate(1, [j \in 1..ns |-> PlainStep(j)], mr, PlainRepair)>> :
        ns \in 1..MaxRunSteps, mr \in MaxRetriesChoices }
    \cup { <<Simple(1, "deterministic"),
             Validate(2, [j \in 1..ns |-> PlainStep(j)], mr, PlainRepair)>> :
             ns \in 1..MaxRunSteps, mr \in MaxRetriesChoices }

\* a blueprint whose last node carries the name of its first node: a node name
\* is a plain string and nothing checks that the names of a blueprint differ
WithRepeatedName(s) == [s EXCEPT ![Len(s)].name = s[1].name]

\* the blueprints of exact and validate nodes
ExactBlueprints ==
    { s \in Blueprints : \A k \in DOMAIN s : s[k].type \in {"deterministic", "validate"} }

\* blueprints of exact and validate nodes whose names differ or repeat
RepeatingBlueprints ==
    ExactBlueprints
    \cup { WithRepeatedName(s) : s \in { t \in ExactBlueprints : Len(t) >= 2 } }

Names == { NodeName(k) : k \in 1..MaxNodes } \cup { RepairName(k) : k \in 1..MaxNodes }

NoResult == Result("none", <<>>, 0, Undefined)

\* one entry of the trace: a call of a body, step or agent, or a reporter call
Ev(kind, name, att, step, status) ==
    [kind |-> kind, name |-> name, att |-> att, step |-> step, status |-> status]

ReporterEv(kind, name) == Ev(kind, name, 0, 0, Undefined)

----------------------------------------------------------------------------
(* executeValidateNode: the results it builds *)

RECURSIVE JoinOutputs_Reversed(_)
JoinOutputs_Reversed(rs) ==
    IF Len(rs) = 0 THEN <<>>
    ELSE IF Len(rs) = 1 THEN rs[1].output
    ELSE JoinOutputs_Reversed(Tail(rs)) \o <<"\n">> \o rs[1].output

RECURSIVE JoinOutputs(_)
\* stepResults.map((r) => r.output).join("\n")
JoinOutputs(rs) ==
    IF Len(rs) = 0 THEN <<>>
    ELSE IF Len(rs) = 1 THEN rs[1].output
    ELSE rs[1].output \o <<"\n">> \o JoinOutputs(Tail(rs))

RECURSIVE SumDurations(_)
\* stepResults.reduce((sum, r) => sum + r.durationMs, 0)
SumDurations(rs) ==
    IF Len(rs) = 0 THEN 0 ELSE rs[1].durationMs + SumDurations(Tail(rs))

\* stepResults.find((r) => r.status === "failure")
FindFailed(rs) ==
    IF \E k \in 1..Len(rs) : rs[k].status = "failure"
    THEN rs[CHOOSE k \in 1..Len(rs) :
                /\ rs[k].status = "failure"
                /\ \A m \in 1..(k - 1) : rs[m].status # "failure"]
    ELSE NoResult

MaxRetriesOf_NoRetry(node) == 0

MaxRetriesOf_OrDefault(node) ==
    IF node.maxRetries = <<>> \/ node.maxRetries[1] = 0
    THEN DefaultMaxRetries ELSE node.maxRetries[1]

MaxRetriesOf_OneMore(node) ==
    (IF node.maxRetries = <<>> THEN DefaultMaxRetries ELSE node.maxRetries[1]) + 1

\* const maxRetries = node.maxRetries ?? 2
MaxRetriesOf(node) ==
    IF node.maxRetries = <<>> THEN DefaultMaxRetries ELSE node.maxRetries[1]

ValidateSuccess_AsFailure(rs) ==
    Result("failure", JoinOutputs(rs), SumDurations(rs), Undefined)

\* the synthetic result returned when allPassed
ValidateSuccess(rs) ==
    Result("success", JoinOutputs(rs), SumDurations(rs), Undefined)

ValidateFailure(rs) ==
    Result("failure", JoinOutputs(rs), SumDurations(rs),
           IF FindFailed(rs).error = Undefined
           THEN DefaultValidateError ELSE FindFailed(rs).error)

Skipped == Result("skipped", <<>>, 0, Undefined)

----------------------------------------------------------------------------
(* runHarness: the callbacks it hands to the engine *)

\* A reporter callback can throw: thr names the callback that does, "none"
\* when none does.  Each operator below yields the reporter and driver calls
\* made, in order, and whether the last of them threw.

\* harness.ts, first revision: onNodeComplete calls reporter.nodeComplete
OnNodeCompleteH1(name, result, thr) ==
    [calls |-> <<ReporterEv("complete", name)>>, threw |-> thr = "complete"]

\* part_011: reporter.nodeComplete, then reporter.nodeOutput if (result.output)
OnNodeCompleteH2(name, result, thr) ==
    LET c == ReporterEv("complete", name)
        o == ReporterEv("output", name)
    IN  IF thr = "complete" THEN [calls |-> <<c>>, threw |-> TRUE]
        ELSE IF result.output # <<>>
        THEN [calls |-> <<c, o>>, threw |-> thr = "output"]
        ELSE [calls |-> <<c>>, threw |-> FALSE]

\* harness.ts, current revision: reporter.nodeOutput if (result.output), then
\* reporter.nodeComplete
OnNodeCompleteH3(name, result, thr) ==
    LET c == ReporterEv("complete", name)
        o == ReporterEv("output", name)
    IN  IF result.output # <<>>
        THEN IF thr = "output" THEN [calls |-> <<o>>, threw |-> TRUE]
             ELSE [calls |-> <<o, c>>, threw |-> thr = "complete"]
        ELSE [calls |-> <<c>>, threw |-> thr = "complete"]

\* opts.onNodeComplete?.(name, result) as the engine calls it
OnNodeComplete(h, name, result, thr) ==
    CASE h = "h1" -> OnNodeCompleteH1(name, result, thr)
      [] h = "h2" -> OnNodeCompleteH2(name, result, thr)
      [] h = "h3" -> OnNodeCompleteH3(name, result, thr)

\* harness.ts, first revision: the agent executor calls reporter.nodeStart,
\* awaits the driver (outcome r), then reporter.nodeOutput if (result.output)
AgentExecuteH1(name, kind, att, r, thr) ==
    LET call == Ev(kind, name, att, 0, r.status)
        s == ReporterEv("start", name)
        o == ReporterEv("output", name)
    IN  IF thr = "start" THEN [calls |-> <<s>>, threw |-> TRUE]
        ELSE IF r = Throw THEN [calls |-> <<s, call>>, threw |-> TRUE]
        ELSE IF r.output # <<>>
        THEN [calls |-> <<s, call, o>>, threw |-> thr = "output"]
        ELSE [calls |-> <<s, call>>, threw |-> FALSE]

\* part_011 and harness.ts, current revision: the agent executor awaits the
\* driver (or the injected executor) and makes no reporter call
AgentExecuteH3(name, kind, att, r, thr) ==
    [calls |-> <<Ev(kind, name, att, 0, r.status)>>, threw |-> r = Throw]

AgentExecute_FailureRaises(h, name, kind, att, r, thr) ==
    [calls |-> <<Ev(kind, name, att, 0, r.status)>>, threw |-> r.status # "success"]

\* opts.agentExecutor.execute(node, ctx, opts.sandbox) as the engine calls it
AgentExecute(h, name, kind, att, r, thr) ==
    IF h = "h1" THEN AgentExecuteH1(name, kind, att, r, thr)
    ELSE AgentExecuteH3(name, kind, att, r, thr)

ReporterThrows == {"none", "start", "output", "complete"}

AfterBlueprint_PushAlways ==
    IF harness = "h3" THEN "push" ELSE "report"

\* where runHarness continues once executeBlueprint has returned
AfterBlueprint ==
    IF harness = "h3" /\ optsPush THEN "push" ELSE "report"

RunName == <<"run", 0>>

\* PushResult of pushAndCreatePR
PushRes(pushed, prUrl, error) ==
    [pushed |-> pushed, prUrl |-> prUrl, error |-> error]

\* pushResult while the push flow has not run (let pushResult: undefined)
NoPush == PushRes(FALSE, Undefined, "not run")

NoReport == [nodes |-> <<>>, branch |-> <<>>, pushResult |-> NoPush, made |-> FALSE]

\* strings that are built or rewritten are kept as sequences of characters
LowerAlnum ==
    {"a", "b", "c", "d", "e", "f", "g", "h", "i", "j", "k", "l", "m", "n", "o",
     "p", "q", "r", "s", "t", "u", "v", "w", "x", "y", "z",
     "0", "1", "2", "3", "4", "5", "6", "7", "8", "9"}

\* toLowerCase of one character
ToLowerCase(c) ==
    LET upper == <<"A", "B", "C", "D", "E", "F", "G", "H", "I", "J", "K", "L", "M",
                   "N", "O", "P", "Q", "R", "S", "T", "U", "V", "W", "X", "Y", "Z">>
        lower == <<"a", "b", "c", "d", "e", "f", "g", "h", "i", "j", "k", "l", "m",
                   "n", "o", "p", "q", "r", "s", "t", "u", "v", "w", "x", "y", "z">>
    IN  IF \E k \in DOMAIN upper : upper[k] = c
        THEN lower[CHOOSE k \in DOMAIN upper : upper[k] = c]
        ELSE c

\* replace(/[^a-z0-9]+/g, "-"): every maximal run of other characters becomes
\* one hyphen
RECURSIVE Hyphenate(_)
Hyphenate(s) ==
    IF s = <<>> THEN <<>>
    ELSE IF Head(s) \in LowerAlnum THEN <<Head(s)>> \o Hyphenate(Tail(s))
    ELSE IF Tail(s) # <<>> /\ Head(Tail(s)) \notin LowerAlnum
    THEN Hyphenate(Tail(s))
    ELSE <<"-">> \o Hyphenate(Tail(s))

\* replace(/^-+|-+$/g, "")
RECURSIVE TrimHyphens(_)
TrimHyphens(s) ==
    IF s # <<>> /\ Head(s) = "-" THEN TrimHyphens(Tail(s))
    ELSE IF s # <<>> /\ s[Len(s)] = "-" THEN TrimHyphens(SubSeq(s, 1, Len(s) - 1))
    ELSE s

SlugMaxLen == 64

\* slugify(input): lower-case, hyphenate, trim the hyphens, keep 64 characters
Slugify(input) ==
    LET t == TrimHyphens(Hyphenate([k \in DOMAIN input |-> ToLowerCase(input[k])]))
    IN  SubSeq(t, 1, IF Len(t) < SlugMaxLen THEN Len(t) ELSE SlugMaxLen)

\* const branch = `harness/${runId}/${bpSlug}`
BranchOf(runId, name) ==
    <<"h", "a", "r", "n", "e", "s", "s", "/">> \o runId \o <<"/">> \o Slugify(name)

\* opts.runId and opts.blueprint.name of the runs the model follows
OptsRunId == <<"d", "e", "a", "d", "b", "e", "e", "f">>

BlueprintName == <<"d", "e", "m", "o">>

\* pushAndCreatePR(sandbox, ctx, branch, opts).  tok: opts.githubToken is set;
\* po: outcome of the push (pushBranch of the remote sandbox catches every
\* error, the local git push is an exec whose exit code is read); pr: outcome
\* of createPR ("empty": gh pr create exits 0 and prints nothing)
PushAndCreatePR(tok, po, pr) ==
    IF ~tok THEN PushRes(FALSE, Undefined, "GITHUB_TOKEN required for push")
    ELSE IF po = "fail" THEN PushRes(FALSE, Undefined, "git push failed")
    ELSE IF pr = "throw" THEN PushRes(TRUE, Undefined, "PR creation failed")
    ELSE PushRes(TRUE, IF pr = "url" THEN "url" ELSE Undefined, Undefined)

PushCalls_PRAfterFailedPush(sb, tok, po, pr) ==
    IF ~tok THEN <<>>
    ELSE <<Ev(IF sb = "remote" THEN "pushBranch" ELSE "gitPush", RunName, 0, 0, po),
           Ev("createPR", RunName, 0, 0, pr)>>

\* what pushAndCreatePR asks of the sandbox, in order: sandbox.pushBranch where
\* the sandbox has one (the remote one) and the exec of git push otherwise,
\* then createPR; status keeps how each call ended
PushCalls(sb, tok, po, pr) ==
    IF ~tok THEN <<>>
    ELSE <<Ev(IF sb = "remote" THEN "pushBranch" ELSE "gitPush", RunName, 0, 0, po)>>
         \o (IF po = "ok" THEN <<Ev("createPR", RunName, 0, 0, pr)>> ELSE <<>>)

----------------------------------------------------------------------------
(* Sandbox: values *)

Backends == {"local", "remote"}

SeqsUpTo(S, n) == UNION { [1..k -> S] : k \in 0..n }

\* path segments: two plain names, the parent and current directory, and a
\* plain name that begins with two dots
Segs == {"r", "x", "..", ".", "..r"}

\* a segment with the character "2" appended to its text
Append2(seg) ==
    CASE seg = "r" -> "r2" [] seg = "x" -> "x2" [] seg = ".." -> "..2"
      [] seg = "." -> ".2" [] seg = "..r" -> "..r2"

\* the segments whose text begins with ".."
DotDotSegs == {"..", "..r", "..2", "..r2"}

\* a path: absolute or relative, and its segments
Path(abs, segs) == [abs |-> abs, segs |-> segs]

Paths == { Path(abs, segs) : abs \in BOOLEAN, segs \in SeqsUpTo(Segs, MaxPathLen) }

\* process.cwd(), against which path.resolve reads a relative path
ProcessCwd == <<"x">>

\* sandbox.workDir
WorkDir == Path(TRUE, <<"r">>)

RECURSIVE Normalize(_, _)
\* path.resolve, segment by segment: "." is dropped, ".." removes the segment
\* before it (none at the root of the file system)
Normalize(done, rest) ==
    IF rest = <<>> THEN done
    ELSE IF Head(rest) = "." THEN Normalize(done, Tail(rest))
    ELSE IF Head(rest) = ".."
    THEN Normalize(IF done = <<>> THEN <<>> ELSE SubSeq(done, 1, Len(done) - 1),
                   Tail(rest))
    ELSE Normalize(Append(done, Head(rest)), Tail(rest))

\* path.resolve(p): the segments of the absolute path p stands for
Resolve(p) == Normalize(<<>>, IF p.abs THEN p.segs ELSE ProcessCwd \o p.segs)

\* length of the longest common prefix of two segment sequences
CommonPrefix(a, b) ==
    CHOOSE c \in 0..Len(a) :
        /\ c <= Len(b)
        /\ \A k \in 1..c : a[k] = b[k]
        /\ (c < Len(a) /\ c < Len(b)) => a[c + 1] # b[c + 1]

\* path.relative(from, to) of two resolved paths: one ".." for every segment
\* of from below the common prefix, then the rest of to
Relative(from, to) ==
    LET c == CommonPrefix(from, to)
    IN  [k \in 1..(Len(from) - c) |-> ".."] \o SubSeq(to, c + 1, Len(to))

\* rel.startsWith(".."), rel being the segments joined by "/"
StartsWithDotDot(rel) == rel # <<>> /\ rel[1] \in DotDotSegs

AssertPathConfined_Never(candidate, root) == FALSE

AssertPathConfined_TextPrefix(candidate, root) ==
    LET c == Resolve(candidate)
        r == Resolve(root)
    IN  ~(\/ r = <<>>
          \/ /\ Len(c) >= Len(r)
             /\ SubSeq(c, 1, Len(r) - 1) = SubSeq(r, 1, Len(r) - 1)
             /\ c[Len(r)] \in {r[Len(r)], Append2(r[Len(r)])})

AssertPathConfined_Unresolved(candidate, root) ==
    LET c == IF candidate.abs THEN candidate.segs ELSE ProcessCwd \o candidate.segs
    IN  ~(Len(c) >= Len(root.segs) /\ SubSeq(c, 1, Len(root.segs)) = root.segs)

\* assertPathConfined(candidate, root) throws; path.relative of two resolved
\* POSIX paths is never absolute
AssertPathConfined(candidate, root) ==
    StartsWithDotDot(Relative(Resolve(root), Resolve(candidate)))

\* characters of env keys: a letter, the underscore, a digit, "=" and a blank
KeyChars == {"a", "_", "1", "=", " "}

EnvKeys == SeqsUpTo(KeyChars, MaxKeyLen)

\* ENV_KEY_RE.test(key), ENV_KEY_RE = /^[A-Za-z_][A-Za-z0-9_]*$/
TestEnvKey(key) ==
    /\ Len(key) >= 1
    /\ key[1] \in {"a", "_"}
    /\ \A k \in 2..Len(key) : key[k] \in {"a", "_", "1"}

\* execOpts.env: absent (NoEnv), or its keys in the order of Object.keys
NoEnv == << <<"no env">> >>

Envs ==
    {NoEnv, <<>>} \cup { <<k>> : k \in EnvKeys }
    \cup { <<j, k>> : j, k \in { e \in EnvKeys : Len(e) = 1 } }

\* the inputs of exec: every cwd with an env that is absent or has a bad key,
\* and every env with a cwd inside or outside the sandbox root
ExecInputs ==
    { [cwd |-> c, env |-> e, argv |-> a] :
        c \in Paths, e \in {NoEnv, << <<"=">> >>}, a \in {<<>>, <<"ls">>} }
    \cup { [cwd |-> c, env |-> e, argv |-> a] :
        c \in {WorkDir, Path(TRUE, <<"x">>)}, e \in Envs, a \in {<<"ls">>} }

ExecResult(exitCode, timedOut) == [exitCode |-> exitCode, timedOut |-> timedOut]

NoExecResult == ExecResult(0 - 1, FALSE)

\* what exec did: threw is the reason it threw, "none" when it returned
\* result; executed is whether a process was spawned (local) or a session
\* command issued (remote); ended is how that command ended
Exec(in, threw, executed, ended, result) ==
    [called |-> TRUE, cwd |-> in.cwd, env |-> in.env, argv |-> in.argv,
     threw |-> threw, executed |-> executed, ended |-> ended, result |-> result]

NoExec ==
    [called |-> FALSE, cwd |-> WorkDir, env |-> NoEnv, argv |-> <<>>,
     threw |-> "none", executed |-> FALSE, ended |-> "none",
     result |-> NoExecResult]

\* const sessionId = `harness-${randomBytes(4).toString("hex")}`
SessionId == "harness-1"

\* an operation asked of the backend: its name, its argument (a session, a
\* path, a flag) and the method of the sandbox object that asked
Op(op, arg, by) == [op |-> op, arg |-> arg, by |-> by]

\* no uploadFiles() or snapshot() call has been made
NoCall == [method |-> "none"]

\* no call of the utility has been made
NotCalled == [called |-> FALSE]

\* what the factory of each backend has asked for the session by the time it
\* returns the sandbox object
CreatedOps(b) ==
    IF b = "remote" THEN <<Op("createSession", SessionId, "factory")>> ELSE <<>>

CallsIdle ==
    /\ ops = <<>>
    /\ lastCall = NoCall
    /\ sanitized = NotCalled
    /\ confined = NotCalled
    /\ redacted = NotCalled
    /\ quoted = NotCalled

\* a release operation issued to the backend, whether the backend did it, and
\* the teardown() call that issued it (0: the factory)
Release(op, ok, by) == [op |-> op, ok |-> ok, by |-> by]

\* the resources a release operation frees: the session lives in the container
Freed(op) ==
    CASE op = "deleteSession" -> {"session"}
      [] op = "delete" -> {"container", "session"}
      [] op = "worktreeRemove" -> {"worktree"}
      [] op = "rm" -> {"workdir"}
      [] op = "branchDelete" -> {"branch"}

Released_Nothing(res, op, ok) == res

\* the resources left once the backend has answered a release operation
Released(res, op, ok) == IF ok THEN res \ Freed(op) ELSE res

\* what the sandbox of each backend owns once it has been created
ResourcesOf(b) ==
    IF b = "remote" THEN {"container", "session"}
    ELSE {"workdir", "worktree", "branch"}

TeardownCalls == 1..MaxTeardownCalls

\* the sandbox variables of a run that looks at the engine only
SandboxIdle ==
    /\ backend = "local"
    /\ cpc = "ready"
    /\ caught = "none"
    /\ createError = "none"
    /\ resources = ResourcesOf("local")
    /\ releases = <<>>
    /\ tornDown = FALSE
    /\ tpc = [c \in TeardownCalls |-> "idle"]
    /\ lastExec = NoExec
    /\ CallsIdle

----------------------------------------------------------------------------
(* Initial state: runHarness has been called *)

InitWith(bps) ==
    /\ harness \in HarnessRevs
    /\ bp \in bps
    /\ optsPush \in BOOLEAN
    /\ pc = "create"
    /\ i = 1
    /\ attempt = 0
    /\ stepResults = <<>>
    /\ nodeResults = <<>>
    /\ ctxResults = [n \in Names |-> NoResult]
    /\ trace = <<>>
    /\ exc = FALSE
    /\ sandboxCreated = FALSE
    /\ teardowns = 0
    /\ pushResult = NoPush
    /\ settled = "pending"
    /\ finalReport = NoReport
    /\ SandboxIdle

Init == InitWith(Blueprints)

InitValidate == InitWith(ValidateBlueprints)

InitRepeating == InitWith(RepeatingBlueprints)

InitScenario == InitWith(ScenarioBlueprints)


----------------------------------------------------------------------------
(* Actions: one per suspension point of the run *)

\* const sandbox = await createSandbox(...): outside the try block
CreateSandbox ==
    /\ pc = "create"
    /\ UNCHANGED sandboxVars
    /\ \E ok \in BOOLEAN :
         IF ok
         THEN /\ sandboxCreated' = TRUE
              /\ pc' = IF Len(bp) = 0 THEN AfterBlueprint ELSE "loop"
              /\ settled' = settled
         ELSE /\ sandboxCreated' = FALSE
              /\ pc' = "done"
              /\ settled' = "rejected"
    /\ UNCHANGED <<harness, bp, optsPush, i, attempt, stepResults, nodeResults,
                   ctxResults, trace, exc, teardowns, pushResult, finalReport>>

Halts_Never(result) == FALSE

Halts_OnSkipped(result) == result.status \in {"failure", "skipped"}

\* executeBlueprint: if (result.status === "failure") break
Halts(result) == result.status = "failure"

Record_Dropped(results, name, result) == results

Record_Only(results, name, result) ==
    [n \in DOMAIN results |-> IF n = name THEN result ELSE NoResult]

\* ctx.results[node.name] = result
Record(results, name, result) == [results EXCEPT ![name] = result]

NextNode_Same(k) == k

\* for (const node of bp.nodes): the iteration after the one of node k
NextNode(k) == k + 1

\* executeBlueprint, after a node's result is known: push it, store it in
\* ctx.results, call onNodeComplete, then break, continue or return
Complete(calls, name, result) ==
    \E thr \in ReporterThrows :
      LET oc == OnNodeComplete(harness, name, result, thr) IN
      /\ thr # "none" => oc.threw
      /\ nodeResults' = Append(nodeResults, [name |-> name, result |-> result])
      /\ ctxResults' = Record(ctxResults, name, result)
      /\ trace' = trace \o calls \o oc.calls
      /\ IF oc.threw
         THEN pc' = "teardown" /\ exc' = TRUE /\ i' = i
         ELSE IF Halts(result) \/ i = Len(bp)
         THEN pc' = AfterBlueprint /\ exc' = exc /\ i' = i
         ELSE pc' = "loop" /\ exc' = exc /\ i' = NextNode(i)

Thrown_AsFailure(calls) ==
    Complete(calls, bp[i].name, Result("failure", <<>>, 0, "thrown"))

\* executeBlueprint and executeValidateNode hold no try/catch: an exception of
\* a node's code leaves executeBlueprint, and control goes to the finally
\* block of runHarness
Thrown(calls) ==
    /\ trace' = trace \o calls
    /\ pc' = "teardown"
    /\ exc' = TRUE
    /\ UNCHANGED <<i, nodeResults, ctxResults>>

\* one iteration of for (const node of bp.nodes), up to the first await
\* inside a validate node
ExecuteNode ==
    /\ pc = "loop"
    /\ UNCHANGED sandboxVars
    /\ LET node == bp[i] IN
       \E sk \in BOOLEAN :
         IF sk
         THEN /\ Complete(<<>>, node.name, Skipped)
              /\ UNCHANGED <<attempt, stepResults>>
         ELSE CASE node.type \in {"preflight", "deterministic"} ->
                     /\ \E r \in node.exec :
                          IF r = Throw
                          THEN Thrown(<<Ev("body", node.name, 0, 0, r.status)>>)
                          ELSE Complete(<<Ev("body", node.name, 0, 0, r.status)>>,
                                        node.name, r)
                     /\ UNCHANGED <<attempt, stepResults>>
                [] node.type = "agentic" ->
                     /\ \E r \in node.exec, thr \in ReporterThrows :
                          LET ax == AgentExecute(harness, node.name, "body", 0, r, thr) IN
                          /\ thr # "none" => (ax.threw /\ r # Throw)
                          /\ IF ax.threw THEN Thrown(ax.calls)
                             ELSE Complete(ax.calls, node.name, r)
                     /\ UNCHANGED <<attempt, stepResults>>
                [] node.type = "validate" ->
                     /\ attempt' = 0
                     /\ stepResults' = <<>>
                     /\ IF Len(node.steps) = 0
                        THEN Complete(<<>>, node.name, ValidateSuccess(<<>>))
                        ELSE /\ pc' = "steps"
                             /\ UNCHANGED <<i, nodeResults, ctxResults, trace, exc>>
    /\ UNCHANGED <<harness, bp, optsPush, sandboxCreated, teardowns, pushResult,
                   settled, finalReport>>

StepFailed_Never(r) == FALSE

\* executeValidateNode: if (result.status === "failure") { allPassed = false; break; }
StepFailed(r) == r.status = "failure"

\* executeValidateNode: await step.exec(ctx, opts.sandbox), and what follows
\* it up to the next await
ValidateStep ==
    /\ pc = "steps"
    /\ UNCHANGED sandboxVars
    /\ LET node == bp[i]
           j == Len(stepResults) + 1
       IN \E r \in node.steps[j] :
            LET rs == Append(stepResults, r)
                call == <<Ev("step", node.name, attempt, j, r.status)>>
            IN  IF r = Throw
                THEN Thrown(call) /\ UNCHANGED <<attempt, stepResults>>
                ELSE IF StepFailed(r)
                THEN IF attempt = MaxRetriesOf(node)
                     THEN /\ Complete(call, node.name, ValidateFailure(rs))
                          /\ stepResults' = rs
                          /\ attempt' = attempt
                     ELSE /\ pc' = "repair"
                          /\ stepResults' = rs
                          /\ trace' = trace \o call
                          /\ UNCHANGED <<i, attempt, nodeResults, ctxResults, exc>>
                ELSE IF j = Len(node.steps)
                THEN /\ Complete(call, node.name, ValidateSuccess(rs))
                     /\ stepResults' = rs
                     /\ attempt' = attempt
                ELSE /\ stepResults' = rs
                     /\ trace' = trace \o call
                     /\ UNCHANGED <<pc, i, attempt, nodeResults, ctxResults, exc>>
    /\ UNCHANGED <<harness, bp, optsPush, sandboxCreated, teardowns, pushResult,
                   settled, finalReport>>

\* executeValidateNode: await opts.agentExecutor.execute(node.onFailure, ...),
\* then attempt++ and the next attempt starts with fresh stepResults
Repair ==
    /\ pc = "repair"
    /\ UNCHANGED sandboxVars
    /\ \E r \in bp[i].repair, thr \in ReporterThrows :
         LET ax == AgentExecute(harness, bp[i].onFailure, "repair", attempt, r, thr) IN
         /\ thr # "none" => (ax.threw /\ r # Throw)
         /\ IF ax.threw
            THEN Thrown(ax.calls) /\ UNCHANGED <<attempt, stepResults>>
            ELSE /\ trace' = trace \o ax.calls
                 /\ attempt' = attempt + 1
                 /\ stepResults' = <<>>
                 /\ pc' = "steps"
                 /\ UNCHANGED <<i, nodeResults, ctxResults, exc>>
    /\ UNCHANGED <<harness, bp, optsPush, sandboxCreated, teardowns, pushResult,
                   settled, finalReport>>

\* if (opts.push) pushResult = await pushAndCreatePR(...)
Push ==
    /\ pc = "push"
    /\ UNCHANGED sandboxVars
    /\ \E sb \in {"local", "remote"}, tok \in BOOLEAN, po \in {"ok", "fail"},
          pr \in {"url", "empty", "throw"} :
         \* createPR of a sandbox with defaultBranch returns html_url or throws
         /\ (sb = "remote" /\ tok /\ po = "ok") => pr # "empty"
         /\ pushResult' = PushAndCreatePR(tok, po, pr)
         /\ trace' = trace
                       \o <<Ev("push", RunName, 0, 0, IF tok THEN "token" ELSE "no token")>>
                       \o PushCalls(sb, tok, po, pr)
    /\ pc' = "report"
    /\ exc' = exc
    /\ UNCHANGED <<harness, bp, optsPush, i, attempt, stepResults, nodeResults,
                   ctxResults, sandboxCreated, teardowns, settled, finalReport>>

\* opts.reporter.runComplete(finalReport); return finalReport
RunComplete ==
    /\ pc = "report"
    /\ UNCHANGED sandboxVars
    /\ \E thr \in BOOLEAN :
         /\ exc' = thr
         /\ finalReport' = IF thr THEN finalReport
                           ELSE [nodes |-> nodeResults,
                                 branch |-> BranchOf(OptsRunId, BlueprintName),
                                 pushResult |-> pushResult, made |-> TRUE]
    /\ trace' = Append(trace, ReporterEv("runComplete", RunName))
    /\ pc' = "teardown"
    /\ UNCHANGED <<harness, bp, optsPush, i, attempt, stepResults, nodeResults,
                   ctxResults, sandboxCreated, teardowns, pushResult, settled>>

RunsTeardown_OnlyOnSuccess(e) == ~e

\* try { ... } finally { await sandbox.teardown(); }: the finally block runs
\* whether or not an exception e is propagating
RunsTeardown(e) == TRUE

\* finally { await sandbox.teardown(); }, after which runHarness settles
Teardown ==
    /\ pc = "teardown"
    /\ UNCHANGED sandboxVars
    /\ IF RunsTeardown(exc)
       THEN /\ teardowns' = teardowns + 1
            /\ trace' = Append(trace, ReporterEv("teardown", RunName))
            /\ \E thr \in BOOLEAN :
                 settled' = IF exc \/ thr THEN "rejected" ELSE "returned"
       ELSE /\ teardowns' = teardowns
            /\ trace' = trace
            /\ settled' = "rejected"
    /\ pc' = "done"
    /\ UNCHANGED <<harness, bp, optsPush, i, attempt, stepResults, nodeResults,
                   ctxResults, exc, sandboxCreated, pushResult, finalReport>>

Next ==
    \/ CreateSandbox
    \/ ExecuteNode
    \/ ValidateStep
    \/ Repair
    \/ Push
    \/ RunComplete
    \/ Teardown

Spec == Init /\ [][Next]_vars

SpecValidate == InitValidate /\ [][Next]_vars

SpecRepeating == InitRepeating /\ [][Next]_vars

\* runs of the current revision of runHarness in which every awaited call
\* settles and the event loop then resumes the run: a run that can take a step
\* takes one
InitFair == InitWith(RetryBlueprints) /\ harness = "h3"

SpecFair == InitFair /\ [][Next]_vars /\ WF_vars(Next)

SpecScenario == InitScenario /\ [][Next]_vars

----------------------------------------------------------------------------
(* Sandbox: creation *)

\* the run variables while the harness awaits createSandbox
RunAtCreate ==
    /\ harness = "h3"
    /\ bp = <<>>
    /\ optsPush = FALSE
    /\ pc = "create"
    /\ i = 1
    /\ attempt = 0
    /\ stepResults = <<>>
    /\ nodeResults = <<>>
    /\ ctxResults = [n \in Names |-> NoResult]
    /\ trace = <<>>
    /\ exc = FALSE
    /\ sandboxCreated = FALSE
    /\ teardowns = 0
    /\ pushResult = NoPush
    /\ settled = "pending"
    /\ finalReport = NoReport

\* createLocalSandbox or createDaytonaSandbox has been called
InitSandbox ==
    /\ RunAtCreate
    /\ backend \in Backends
    /\ cpc = "start"
    /\ caught = "none"
    /\ createError = "none"
    /\ resources = {}
    /\ releases = <<>>
    /\ tornDown = FALSE
    /\ tpc = [c \in TeardownCalls |-> "idle"]
    /\ lastExec = NoExec
    /\ CallsIdle

\* the factory throws err to its caller
FactoryThrows(err) ==
    /\ cpc' = "failed"
    /\ createError' = err

\* createDaytonaSandbox: the API key and parseGitHubRepo, before anything is
\* provisioned
DaytonaValidate ==
    /\ UNCHANGED <<runVars, callVars>>
    /\ backend = "remote" /\ cpc = "start"
    /\ \E ok \in BOOLEAN :
         IF ok THEN cpc' = "create" /\ createError' = createError
         ELSE FactoryThrows("validate")
    /\ UNCHANGED <<backend, caught, resources, releases, tornDown, tpc, lastExec, ops>>

\* const dSandbox = await daytona.create(...)
DaytonaCreate ==
    /\ UNCHANGED <<runVars, callVars>>
    /\ backend = "remote" /\ cpc = "create"
    /\ \E ok \in BOOLEAN :
         IF ok
         THEN /\ cpc' = "clone"
              /\ createError' = createError
              /\ resources' = resources \cup {"container"}
         ELSE FactoryThrows("create") /\ resources' = resources
    /\ UNCHANGED <<backend, caught, releases, tornDown, tpc, lastExec, ops>>

\* the awaits of the try block, in order
BootstrapSteps == <<"clone", "createBranch", "checkoutBranch">>

BootstrapNames == { BootstrapSteps[k] : k \in DOMAIN BootstrapSteps }

\* where the factory goes after the bootstrap step at position k succeeded
AfterBootstrap(k) ==
    IF k < Len(BootstrapSteps) THEN BootstrapSteps[k + 1] ELSE "session"

\* try { await clone; await createBranch; await checkoutBranch } catch (err)
DaytonaBootstrap ==
    /\ UNCHANGED <<runVars, callVars>>
    /\ backend = "remote" /\ cpc \in BootstrapNames
    /\ \E ok \in BOOLEAN :
         LET k == CHOOSE n \in DOMAIN BootstrapSteps : BootstrapSteps[n] = cpc
         IN  IF ok THEN cpc' = AfterBootstrap(k) /\ caught' = caught
             ELSE cpc' = "cleanup" /\ caught' = cpc
    /\ UNCHANGED <<backend, createError, resources, releases, tornDown, tpc,
                   lastExec, ops>>

BootstrapError_DeleteWins(err, deleteFailed) ==
    IF deleteFailed THEN "delete" ELSE err

\* await daytona.delete(dSandbox).catch(() => {}); throw err;
BootstrapError(err, deleteFailed) == err

\* catch (err) { await daytona.delete(dSandbox).catch(() => {}); throw err; }
DaytonaBootstrapCleanup ==
    /\ UNCHANGED <<runVars, callVars>>
    /\ backend = "remote" /\ cpc = "cleanup"
    /\ \E ok \in BOOLEAN :
         /\ releases' = Append(releases, Release("delete", ok, 0))
         /\ resources' = Released(resources, "delete", ok)
         /\ FactoryThrows(BootstrapError(caught, ~ok))
    /\ UNCHANGED <<backend, caught, tornDown, tpc, lastExec, ops>>

\* await dSandbox.process.createSession(sessionId), after the try block; then
\* the sandbox object is returned
DaytonaCreateSession ==
    /\ UNCHANGED <<runVars, callVars>>
    /\ backend = "remote" /\ cpc = "session"
    /\ \E ok \in BOOLEAN :
         IF ok
         THEN /\ cpc' = "ready"
              /\ createError' = createError
              /\ resources' = resources \cup {"session"}
         ELSE FactoryThrows("createSession") /\ resources' = resources
    /\ ops' = Append(ops, Op("createSession", SessionId, "factory"))
    /\ UNCHANGED <<backend, caught, releases, tornDown, tpc, lastExec>>

\* createLocalSandbox: await mkdir(workDir, { recursive: true })
LocalMkdir ==
    /\ UNCHANGED <<runVars, callVars>>
    /\ backend = "local" /\ cpc = "start"
    /\ \E ok \in BOOLEAN :
         IF ok
         THEN /\ cpc' = "worktree"
              /\ createError' = createError
              /\ resources' = resources \cup {"workdir"}
         ELSE FactoryThrows("mkdir") /\ resources' = resources
    /\ UNCHANGED <<backend, caught, releases, tornDown, tpc, lastExec, ops>>

\* git worktree add -b <branch> <workDir>: (err) => (err ? rej(err) : res())
LocalWorktreeAdd ==
    /\ UNCHANGED <<runVars, callVars>>
    /\ backend = "local" /\ cpc = "worktree"
    /\ \E ok \in BOOLEAN :
         IF ok
         THEN /\ cpc' = "config"
              /\ createError' = createError
              /\ resources' = resources \cup {"worktree", "branch"}
         ELSE FactoryThrows("worktree add") /\ resources' = resources
    /\ UNCHANGED <<backend, caught, releases, tornDown, tpc, lastExec, ops>>

\* git config commit.gpgsign false: () => res(), whatever git answers; then
\* the sandbox object is returned
LocalGitConfig ==
    /\ UNCHANGED <<runVars, callVars>>
    /\ backend = "local" /\ cpc = "config"
    /\ cpc' = "ready"
    /\ UNCHANGED <<backend, caught, createError, resources, releases, tornDown,
                   tpc, lastExec, ops>>

----------------------------------------------------------------------------
(* Sandbox: teardown *)

AlreadyTornDown_Never(flag) == FALSE

\* if (tornDown) return;
AlreadyTornDown(flag) == flag

\* teardown() up to its first await: if (tornDown) return; tornDown = true;
TeardownEnter(c, first) ==
    /\ cpc = "ready" /\ tpc[c] = "idle"
    /\ IF AlreadyTornDown(tornDown)
       THEN tpc' = [tpc EXCEPT ![c] = "resolved"] /\ tornDown' = tornDown
       ELSE tpc' = [tpc EXCEPT ![c] = first] /\ tornDown' = TRUE
    /\ UNCHANGED <<backend, cpc, caught, createError, resources, releases,
                   lastExec, ops>>

\* one release operation of teardown(): the backend does it or not, and the
\* call goes on to after, or rejects when the error is not swallowed
TeardownRelease(c, op, after, raises) ==
    /\ tpc[c] = op
    /\ \E ok \in BOOLEAN :
         /\ releases' = Append(releases, Release(op, ok, c))
         /\ resources' = Released(resources, op, ok)
         /\ tpc' = [tpc EXCEPT ![c] = IF ~ok /\ raises THEN "rejected" ELSE after]
    /\ UNCHANGED <<backend, cpc, caught, createError, tornDown, lastExec, ops>>

\* part_010: async teardown()
DaytonaTeardown ==
    /\ UNCHANGED <<runVars, callVars>>
    /\ backend = "remote"
    /\ \E c \in TeardownCalls : TeardownEnter(c, "deleteSession")

\* await dSandbox.process.deleteSession(sessionId).catch(() => {})
DaytonaDeleteSession ==
    /\ UNCHANGED <<runVars, callVars>>
    /\ backend = "remote"
    /\ \E c \in TeardownCalls : TeardownRelease(c, "deleteSession", "delete", FALSE)

\* try { ...; await daytona.delete(dSandbox); } catch { }
DaytonaDelete ==
    /\ UNCHANGED <<runVars, callVars>>
    /\ backend = "remote"
    /\ \E c \in TeardownCalls : TeardownRelease(c, "delete", "resolved", FALSE)

\* local.ts: async teardown()
LocalTeardown ==
    /\ UNCHANGED <<runVars, callVars>>
    /\ backend = "local"
    /\ \E c \in TeardownCalls : TeardownEnter(c, "worktreeRemove")

\* git worktree remove --force <workDir>: () => res()
LocalWorktreeRemove ==
    /\ UNCHANGED <<runVars, callVars>>
    /\ backend = "local"
    /\ \E c \in TeardownCalls : TeardownRelease(c, "worktreeRemove", "rm", FALSE)

\* try { await rm(workDir, { recursive: true, force: true }); } catch { }
LocalRm ==
    /\ UNCHANGED <<runVars, callVars>>
    /\ backend = "local"
    /\ \E c \in TeardownCalls : TeardownRelease(c, "rm", "branchDelete", FALSE)

\* git branch -D <branch>: () => res()
LocalBranchDelete ==
    /\ UNCHANGED <<runVars, callVars>>
    /\ backend = "local"
    /\ \E c \in TeardownCalls : TeardownRelease(c, "branchDelete", "resolved", FALSE)

NextSandbox ==
    \/ DaytonaValidate
    \/ DaytonaCreate
    \/ DaytonaBootstrap
    \/ DaytonaBootstrapCleanup
    \/ DaytonaCreateSession
    \/ LocalMkdir
    \/ LocalWorktreeAdd
    \/ LocalGitConfig
    \/ DaytonaTeardown
    \/ DaytonaDeleteSession
    \/ DaytonaDelete
    \/ LocalTeardown
    \/ LocalWorktreeRemove
    \/ LocalRm
    \/ LocalBranchDelete

SpecSandbox == InitSandbox /\ [][NextSandbox]_vars

----------------------------------------------------------------------------
(* Sandbox: exec *)

\* a sandbox of either backend has been created and returned to its caller
InitExec ==
    /\ RunAtCreate
    /\ backend \in Backends
    /\ cpc = "ready"
    /\ caught = "none"
    /\ createError = "none"
    /\ resources = ResourcesOf(backend)
    /\ releases = <<>>
    /\ tornDown = FALSE
    /\ tpc = [c \in TeardownCalls |-> "idle"]
    /\ lastExec = NoExec
    /\ ops = CreatedOps(backend)
    /\ lastCall = NoCall
    /\ sanitized = NotCalled
    /\ confined = NotCalled
    /\ redacted = NotCalled
    /\ quoted = NotCalled

\* some key of env fails ENV_KEY_RE
HasBadKey(env) == env # NoEnv /\ \E k \in DOMAIN env : ~TestEnvKey(env[k])

\* how dSandbox.process.executeSessionCommand can end: an exit code, no exit
\* code, a rejection whose message matches /timeout/i, any other rejection
SessionOutcomes == {"exit0", "exitN", "exitUndefined", "timeout", "error"}

\* how the child process of execFile can end, as its callback sees it: exit 0
\* (err is null), another exit code, never spawned, and, for a child that ran
\* until execFile sent it the signal of the timeout: ended by the signal
\* (err.killed, err.code null), or, when the child handles the signal, its
\* own exit with a code (err.killed, err.code a number) or with 0 (err null)
ChildOutcomes ==
    {"exit0", "exitN", "error", "timeout", "timeoutExitN", "timeoutExit0"}

\* part_010: exec(execOpts), the session command ending as out
DaytonaExecDoes(in, out) ==
    IF AssertPathConfined(in.cwd, WorkDir)
    THEN Exec(in, "confinement", FALSE, "none", NoExecResult)
    ELSE IF HasBadKey(in.env) THEN Exec(in, "envKey", FALSE, "none", NoExecResult)
    ELSE IF in.argv = <<>> THEN Exec(in, "emptyArgv", FALSE, "none", NoExecResult)
    ELSE CASE out = "exit0" -> Exec(in, "none", TRUE, out, ExecResult(0, FALSE))
           [] out = "exitN" -> Exec(in, "none", TRUE, out, ExecResult(2, FALSE))
           [] out = "exitUndefined" -> Exec(in, "none", TRUE, out, ExecResult(1, FALSE))
           [] out = "timeout" -> Exec(in, "none", TRUE, out, ExecResult(124, TRUE))
           [] out = "error" -> Exec(in, "backend", TRUE, out, NoExecResult)

\* local.ts: exec(execOpts) and execFilePromise, the child ending as out
LocalExecDoes(in, out) ==
    IF AssertPathConfined(in.cwd, WorkDir)
    THEN Exec(in, "confinement", FALSE, "none", NoExecResult)
    ELSE IF in.argv = <<>> THEN Exec(in, "emptyArgv", FALSE, "none", NoExecResult)
    ELSE CASE out = "exit0" -> Exec(in, "none", TRUE, out, ExecResult(0, FALSE))
           [] out = "exitN" -> Exec(in, "none", TRUE, out, ExecResult(2, FALSE))
           [] out = "timeout" -> Exec(in, "none", TRUE, out, ExecResult(1, TRUE))
           [] out = "timeoutExitN" -> Exec(in, "none", TRUE, out, ExecResult(2, TRUE))
           [] out = "timeoutExit0" -> Exec(in, "none", TRUE, out, ExecResult(0, FALSE))
           [] out = "error" -> Exec(in, "none", TRUE, out, ExecResult(1, FALSE))

ExecSessionOps_PerCall(sid) ==
    << Op("createSession", "exec-1", "exec"),
       Op("executeSessionCommand", "exec-1", "exec"),
       Op("deleteSession", "exec-1", "exec") >>

\* what exec asks of the backend to run its command: one
\* executeSessionCommand(sessionId, ...), in the session of the factory
ExecSessionOps(sid) == <<Op("executeSessionCommand", sid, "exec")>>

\* the calls of exec share no variable of the sandbox: a behaviour makes one
DaytonaExec ==
    /\ UNCHANGED <<runVars, callVars>>
    /\ backend = "remote" /\ cpc = "ready"
    /\ ~lastExec.called
    /\ \E in \in ExecInputs, out \in SessionOutcomes :
         LET did == DaytonaExecDoes(in, out) IN
         /\ lastExec' = did
         /\ ops' = IF did.executed THEN ops \o ExecSessionOps(SessionId) ELSE ops
    /\ UNCHANGED <<backend, cpc, caught, createError, resources, releases,
                   tornDown, tpc>>

LocalExec ==
    /\ UNCHANGED <<runVars, callVars>>
    /\ backend = "local" /\ cpc = "ready"
    /\ ~lastExec.called
    /\ \E in \in ExecInputs, out \in ChildOutcomes :
         lastExec' = LocalExecDoes(in, out)
    /\ UNCHANGED <<backend, cpc, caught, createError, resources, releases,
                   tornDown, tpc, ops>>

NextExec ==
    \/ DaytonaExec
    \/ LocalExec

SpecExec == InitExec /\ [][NextExec]_vars

----------------------------------------------------------------------------
(* Sandbox: uploadFiles and snapshot *)

\* the batches of uploadFiles: one file at any path, or two files of which
\* one lies inside the sandbox root or climbs out of it
Batches ==
    { <<p>> : p \in Paths }
    \cup { <<p, q>> : p \in Paths,
                      q \in {Path(FALSE, <<"x">>), Path(FALSE, <<"..", "x">>)} }
    \cup { <<q, p>> : p \in Paths,
                      q \in {Path(FALSE, <<"x">>), Path(FALSE, <<"..", "x">>)} }

\* const target = resolve(workDir, f.path)
UploadTarget(p) ==
    Path(TRUE, Normalize(<<>>, IF p.abs THEN p.segs ELSE Resolve(WorkDir) \o p.segs))

\* dirname(target) of a resolved path
Dirname(t) ==
    Path(TRUE, IF t.segs = <<>> THEN <<>> ELSE SubSeq(t.segs, 1, Len(t.segs) - 1))

\* for (const f of files) { resolve; assertPathConfined; mkdir; write }, from
\* file k on (createFolder and uploadFile for the remote backend); failAt is
\* the file whose write the backend refuses, 0 for none
RECURSIVE UploadFrom(_, _, _, _)
UploadFrom(b, files, k, failAt) ==
    IF k > Len(files) THEN [ops |-> <<>>, threw |-> "none"]
    ELSE LET t == UploadTarget(files[k])
             mine == IF b = "remote"
                     THEN << Op("createFolder", Dirname(t), "uploadFiles"),
                             Op("uploadFile", t, "uploadFiles") >>
                     ELSE << Op("mkdir", Dirname(t), "uploadFiles"),
                             Op("writeFile", t, "uploadFiles") >>
             rest == UploadFrom(b, files, k + 1, failAt)
         IN  IF AssertPathConfined(t, WorkDir)
             THEN [ops |-> <<>>, threw |-> "confinement"]
             ELSE IF failAt = k THEN [ops |-> mine, threw |-> "backend"]
             ELSE [ops |-> mine \o rest.ops, threw |-> rest.threw]

\* local.ts and part_010: async uploadFiles(files), the same loop in both
UploadFiles ==
    /\ UNCHANGED <<runVars, sanitized, confined, redacted, quoted>>
    /\ cpc = "ready"
    /\ lastCall = NoCall
    /\ \E files \in Batches, failAt \in 0..2 :
         LET did == UploadFrom(backend, files, 1, failAt) IN
         /\ failAt <= Len(files)
         /\ lastCall' = [method |-> "uploadFiles", files |-> files,
                         threw |-> did.threw]
         /\ ops' = ops \o did.ops
    /\ UNCHANGED <<backend, cpc, caught, createError, resources, releases,
                   tornDown, tpc, lastExec>>

\* what git does with a commit: it refuses one that changes nothing unless it
\* is told to allow an empty commit
CommitAccepted(changes, allowEmpty) == changes \/ allowEmpty

DaytonaAllowEmpty_Never(changes) == FALSE

\* part_010 snapshot: the last argument of git.commit, true in the else branch
DaytonaAllowEmpty(changes) == ~changes

\* part_010: async snapshot(); changes: the working tree has pending changes;
\* up: the backend answers
DaytonaSnapshot ==
    /\ UNCHANGED <<runVars, sanitized, confined, redacted, quoted>>
    /\ backend = "remote" /\ cpc = "ready"
    /\ lastCall = NoCall
    /\ \E changes \in BOOLEAN, up \in BOOLEAN :
         LET allow == DaytonaAllowEmpty(changes)
             done == up /\ CommitAccepted(changes, allow)
         IN  /\ lastCall' = [method |-> "snapshot", changes |-> changes, up |-> up,
                             threw |-> IF done THEN "none" ELSE "backend",
                             committed |-> done]
             /\ ops' = ops \o <<Op("git.status", WorkDir, "snapshot")>>
                          \o (IF up /\ changes
                              THEN <<Op("git.add", WorkDir, "snapshot")>> ELSE <<>>)
                          \o (IF up THEN <<Op("git.commit", allow, "snapshot")>>
                              ELSE <<>>)
    /\ UNCHANGED <<backend, cpc, caught, createError, resources, releases,
                   tornDown, tpc, lastExec>>

\* local.ts: async snapshot(): git add -A, git commit --allow-empty; the
\* ExecResult of both is dropped
LocalSnapshot ==
    /\ UNCHANGED <<runVars, sanitized, confined, redacted, quoted>>
    /\ backend = "local" /\ cpc = "ready"
    /\ lastCall = NoCall
    /\ \E changes \in BOOLEAN, up \in BOOLEAN :
         /\ lastCall' = [method |-> "snapshot", changes |-> changes, up |-> up,
                         threw |-> "none",
                         committed |-> up /\ CommitAccepted(changes, TRUE)]
         /\ ops' = ops \o << Op("git.add", WorkDir, "snapshot"),
                              Op("git.commit", TRUE, "snapshot") >>
    /\ UNCHANGED <<backend, cpc, caught, createError, resources, releases,
                   tornDown, tpc, lastExec>>

NextFiles ==
    \/ UploadFiles
    \/ DaytonaSnapshot
    \/ LocalSnapshot

SpecFiles == InitExec /\ [][NextFiles]_vars

----------------------------------------------------------------------------
(* Sandbox: the whole life of a remote sandbox *)

\* createDaytonaSandbox has been called
InitSession == InitSandbox /\ backend = "remote"

\* the factory, then exec and teardown() calls on the sandbox it returned
NextSession ==
    \/ DaytonaValidate
    \/ DaytonaCreate
    \/ DaytonaBootstrap
    \/ DaytonaBootstrapCleanup
    \/ DaytonaCreateSession
    \/ DaytonaExec
    \/ DaytonaTeardown
    \/ DaytonaDeleteSession
    \/ DaytonaDelete

SpecSession == InitSession /\ [][NextSession]_vars

----------------------------------------------------------------------------
(* Utilities: redact, truncate and the sanitize of the reporters *)

\* the texts a reporter is handed: "s" is a character of the secret
Texts == SeqsUpTo({"s", "a"}, MaxTextLen)

MinSecretLen == 8

\* env of the reporter: a secret of MinSecretLen characters under a secret
\* name, and a value too short to be redacted
ReporterEnv ==
    << [name |-> <<"L", "A", "N", "G">>, value |-> <<"a", "a">>],
       [name |-> <<"A", "P", "I", "_", "K", "E", "Y">>,
        value |-> [k \in 1..MinSecretLen |-> "s"]] >>

\* SECRET_PATTERNS.some((p) => p.test(name)): /KEY$/i, /TOKEN$/i, /SECRET$/i,
\* /PASSWORD$/i, /CREDENTIAL$/i
IsSecretName(name) ==
    \E word \in {<<"k", "e", "y">>, <<"t", "o", "k", "e", "n">>,
                 <<"s", "e", "c", "r", "e", "t">>,
                 <<"p", "a", "s", "s", "w", "o", "r", "d">>,
                 <<"c", "r", "e", "d", "e", "n", "t", "i", "a", "l">>} :
        /\ Len(name) >= Len(word)
        /\ \A k \in DOMAIN word :
              ToLowerCase(name[Len(name) - Len(word) + k]) = word[k]

\* isSecretName ? `[REDACTED:${name}]` : "[REDACTED]"
Replacement(name) ==
    <<"[", "R", "E", "D", "A", "C", "T", "E", "D">>
        \o (IF IsSecretName(name) THEN <<":">> \o name ELSE <<>>) \o <<"]">>

\* result.replace(new RegExp(escaped, "g"), replacement): every occurrence of
\* value, from the left, without overlap
RECURSIVE ReplaceAll(_, _, _)
ReplaceAll(text, value, replacement) ==
    IF Len(text) < Len(value) THEN text
    ELSE IF SubSeq(text, 1, Len(value)) = value
    THEN replacement \o ReplaceAll(SubSeq(text, Len(value) + 1, Len(text)),
                                    value, replacement)
    ELSE <<Head(text)>> \o ReplaceAll(Tail(text), value, replacement)

\* sort((a, b) => b[1].length - a[1].length) is stable: e goes behind the
\* entries whose value is as long as its own or longer
RECURSIVE InsertByLength(_, _)
InsertByLength(sorted, e) ==
    IF sorted = <<>> THEN <<e>>
    ELSE IF Len(Head(sorted).value) >= Len(e.value)
    THEN <<Head(sorted)>> \o InsertByLength(Tail(sorted), e)
    ELSE <<e>> \o sorted

RECURSIVE SortByLength(_)
SortByLength(es) ==
    IF es = <<>> THEN <<>>
    ELSE InsertByLength(SortByLength(SubSeq(es, 1, Len(es) - 1)), es[Len(es)])

\* Object.entries(env).filter(([_, v]) => v.length >= 8).sort(...)
Entries(env) ==
    SortByLength(SelectSeq(env, LAMBDA e : Len(e.value) >= MinSecretLen))

\* for (const [name, value] of entries), from position k on
RECURSIVE RedactFrom(_, _, _)
RedactFrom(output, entries, k) ==
    IF k > Len(entries) THEN output
    ELSE RedactFrom(ReplaceAll(output, entries[k].value,
                               Replacement(entries[k].name)),
                    entries, k + 1)

Redact(output, env) == RedactFrom(output, Entries(env), 1)

\* truncate(output, maxBytes), for text of one-byte characters
Truncate(output, maxBytes) ==
    IF Len(output) <= maxBytes THEN output
    ELSE SubSeq(output, 1, maxBytes) \o <<"[truncated]">>

\* what a sanitize(text) did: scanned is the text redact was handed
Sanitize(reporter, text, scanned, out) ==
    [called |-> TRUE, reporter |-> reporter, text |-> text, scanned |-> scanned,
     out |-> out]

\* truncate(redact(text, env), MAX_OUTPUT_BYTES)
RedactThenTruncate(reporter, text) ==
    Sanitize(reporter, text, text, Truncate(Redact(text, ReporterEnv), MaxOutputBytes))

\* redact(truncate(text, MAX_OUTPUT_BYTES), env)
TruncateThenRedact(reporter, text) ==
    Sanitize(reporter, text, Truncate(text, MaxOutputBytes),
             Redact(Truncate(text, MaxOutputBytes), ReporterEnv))

\* no utility has been called
InitUtilities ==
    /\ RunAtCreate
    /\ SandboxIdle

\* part_012: sanitize(text) of createConsoleReporter
ConsoleSanitize ==
    /\ UNCHANGED runVars
    /\ ~sanitized.called
    /\ \E text \in Texts : sanitized' = RedactThenTruncate("console", text)
    /\ UNCHANGED <<backend, cpc, caught, createError, resources, releases,
                   tornDown, tpc, lastExec, ops, lastCall, confined,
                   redacted, quoted>>

\* json.ts: sanitize(text) of createJsonReporter, in its two revisions
JsonSanitize ==
    /\ UNCHANGED runVars
    /\ ~sanitized.called
    /\ \E text \in Texts :
         \/ sanitized' = RedactThenTruncate("json 89-91", text)
         \/ sanitized' = TruncateThenRedact("json 225-227", text)
    /\ UNCHANGED <<backend, cpc, caught, createError, resources, releases,
                   tornDown, tpc, lastExec, ops, lastCall, confined,
                   redacted, quoted>>

NextSanitize ==
    \/ ConsoleSanitize
    \/ JsonSanitize

SpecSanitize == InitUtilities /\ [][NextSanitize]_vars

\* entries an env map is made of: a secret, a value too short to be redacted,
\* a value that is a word of the replacement, a value equal to its own secret
\* name, and a longer secret that begins with the first
RedactEntries ==
    { [name |-> <<"A", "P", "I", "_", "K", "E", "Y">>,
       value |-> [k \in 1..MinSecretLen |-> "s"]],
      [name |-> <<"L", "A", "N", "G">>, value |-> <<"a", "a">>],
      [name |-> <<"M", "O", "D", "E">>,
       value |-> <<"R", "E", "D", "A", "C", "T", "E", "D">>],
      [name |-> <<"P", "A", "S", "S", "W", "O", "R", "D">>,
       value |-> <<"P", "A", "S", "S", "W", "O", "R", "D">>],
      [name |-> <<"T", "O", "K", "E", "N">>,
       value |-> [k \in 1..MinSecretLen |-> "s"] \o <<"a">>] }

\* env maps of one or two entries, in insertion order
RedactEnvs ==
    { <<e>> : e \in RedactEntries }
        \cup { <<p[1], p[2]>> :
                   p \in { q \in RedactEntries \X RedactEntries : q[1] # q[2] } }

\* outputs handed to redact: the texts, and every value with or without a
\* character before and after it
RedactTexts ==
    Texts \cup { pre \o e.value \o post :
                    e \in RedactEntries, pre \in {<<>>, <<"a">>},
                    post \in {<<>>, <<"a">>} }

\* part_014: one redact(output, env) call
RedactCall ==
    /\ UNCHANGED runVars
    /\ ~redacted.called
    /\ \E env \in RedactEnvs, output \in RedactTexts :
         redacted' = [called |-> TRUE, output |-> output, env |-> env,
                      result |-> Redact(output, env)]
    /\ UNCHANGED <<backend, cpc, caught, createError, resources, releases,
                   tornDown, tpc, lastExec, ops, lastCall, sanitized, confined,
                   quoted>>

NextRedact ==
    \/ RedactCall

SpecRedact == InitUtilities /\ [][NextRedact]_vars

----------------------------------------------------------------------------
(* Utilities: shellQuote *)

\* the arguments: a letter, and the characters a shell gives a meaning to
\* ("backtick" is the one character U+0060)
Args == SeqsUpTo({"a", "'", " ", "$", "backtick", "\\"}, MaxArgLen)

\* the argument vectors: none, one or two arguments
Argvs == {<<>>} \cup { <<a>> : a \in Args } \cup (Args \X Args)

\* `'${arg.replace(/'/g, "'\\''")}'`
QuoteArg_Unescaped(arg) == <<"'">> \o arg \o <<"'">>

QuoteArg(arg) ==
    <<"'">> \o ReplaceAll(arg, <<"'">>, <<"'", "\\", "'", "'">>) \o <<"'">>

\* join(" ")
RECURSIVE Join(_)
Join(parts) ==
    IF Len(parts) = 1 THEN parts[1]
    ELSE parts[1] \o <<" ">> \o Join(Tail(parts))

\* shellQuote(argv), for an argv that is not empty
ShellQuote(argv) == Join([k \in DOMAIN argv |-> QuoteArg(argv[k])])

\* part_015: one shellQuote(argv) call; it throws "Empty argv" for no argument
ShellQuoteCall ==
    /\ UNCHANGED runVars
    /\ ~quoted.called
    /\ \E argv \in Argvs :
         quoted' = [called |-> TRUE, argv |-> argv, threw |-> (Len(argv) = 0),
                    out |-> IF Len(argv) = 0 THEN <<>> ELSE ShellQuote(argv)]
    /\ UNCHANGED <<backend, cpc, caught, createError, resources, releases,
                   tornDown, tpc, lastExec, ops, lastCall, sanitized, confined,
                   redacted>>

NextQuote ==
    \/ ShellQuoteCall

SpecQuote == InitUtilities /\ [][NextQuote]_vars

----------------------------------------------------------------------------
(* Utilities: assertPathConfined *)

\* the path whose text is the text of root followed by "2"
Sibling(root) ==
    IF root.segs = <<>> THEN Path(root.abs, <<"2">>)
    ELSE Path(root.abs, SubSeq(root.segs, 1, Len(root.segs) - 1)
                          \o <<Append2(root.segs[Len(root.segs)])>>)

\* the path whose text is the text of root followed by "/.."
ParentOf(root) ==
    IF root.segs = <<>> THEN Path(TRUE, <<"..">>)
    ELSE Path(root.abs, root.segs \o <<"..">>)

\* the candidate of each kind for a root
CandidateOf(kind, root) ==
    CASE kind = "self" -> root
      [] kind = "sibling" -> Sibling(root)
      [] kind = "parent" -> ParentOf(root)

\* assertPathConfined(candidate, root), for a root and the candidate of one
\* kind; threw: it threw the confinement violation
AssertConfined ==
    /\ UNCHANGED runVars
    /\ ~confined.called
    /\ \E root \in Paths, kind \in {"self", "sibling", "parent"} :
         LET candidate == CandidateOf(kind, root) IN
         confined' = [called |-> TRUE, root |-> root, kind |-> kind,
                      candidate |-> candidate,
                      threw |-> AssertPathConfined(candidate, root)]
    /\ UNCHANGED <<backend, cpc, caught, createError, resources, releases,
                   tornDown, tpc, lastExec, ops, lastCall, sanitized,
                   redacted, quoted>>

NextConfine ==
    \/ AssertConfined

SpecConfine == InitUtilities /\ [][NextConfine]_vars

\* assertPathConfined(candidate, root), for any root and any candidate
AssertConfinedAny ==
    /\ UNCHANGED runVars
    /\ ~confined.called
    /\ \E root \in Paths, candidate \in Paths :
         confined' = [called |-> TRUE, root |-> root, kind |-> "any",
                      candidate |-> candidate,
                      threw |-> AssertPathConfined(candidate, root)]
    /\ UNCHANGED <<backend, cpc, caught, createError, resources, releases,
                   tornDown, tpc, lastExec, ops, lastCall, sanitized,
                   redacted, quoted>>

NextConfineAny ==
    \/ AssertConfinedAny

SpecConfineAny == InitUtilities /\ [][NextConfineAny]_vars




----------------------------------------------------------------------------
(* Reading the trace *)

\* kinds of trace entries that are calls of code of a node
CallKinds == {"body", "step", "repair"}

\* positions of the entries of one kind that belong to one name
At(kind, name) ==
    { p \in DOMAIN trace : trace[p].kind = kind /\ trace[p].name = name }

\* the blueprint position a name belongs to (a node or its repair node)
OwnerOf(name) == name[2]

\* executeBlueprint has returned its report to runHarness
Returned == settled = "returned" /\ finalReport.made

----------------------------------------------------------------------------
(* C1: when the k-th node is the first node whose result is failure, the    *)
(* report holds exactly k node results, one per node 1..k in list order,    *)
(* the last one the failure, and no body of nodes k+1..N is ever invoked.   *)

----------------------------------------------------------------------------
(* C2: once the sandbox has been created, sandbox.teardown() is invoked     *)
(* exactly once before runHarness settles, on every exit path; it is never  *)
(* invoked twice and never before the run has left the try block.           *)

C2_TeardownOnEveryPath ==
    /\ teardowns <= 1
    /\ (sandboxCreated /\ settled # "pending") => teardowns = 1
    /\ teardowns = 1 => (sandboxCreated /\ pc = "done")

\* a run whose node body threw: runHarness rejected after one teardown
C2_Witness ==
    /\ settled = "rejected"
    /\ sandboxCreated
    /\ teardowns = 1
    /\ \E p \in DOMAIN trace : trace[p].kind = "body" /\ trace[p].status = "throw"

----------------------------------------------------------------------------
(* C3: the reporter never receives a node's nodeComplete before a           *)
(* nodeOutput of the same node: every output event of a node comes          *)
(* strictly before that node's complete event.                              *)

C3_OutputBeforeComplete ==
    \A p, q \in DOMAIN trace :
        ( /\ trace[p].kind = "complete"
          /\ trace[q].kind = "output"
          /\ trace[q].name = trace[p].name ) => q < p

----------------------------------------------------------------------------
(* C4: for every executed (non-skipped) node of any kind exactly one start  *)
(* event is emitted before the node's body begins and exactly one complete  *)
(* event after the body returns: start, then output events, then complete.  *)

C4_StartOutputComplete ==
    \A k \in 1..Len(nodeResults) :
        LET n == nodeResults[k].name IN
        (nodeResults[k].result.status # "skipped" /\ At("complete", n) # {}) =>
            /\ Cardinality(At("start", n)) = 1
            /\ Cardinality(At("complete", n)) = 1
            /\ \A s \in At("start", n), c \in At("complete", n) :
                 /\ s < c
                 /\ \A p \in At("body", n) \cup At("step", n) : s < p /\ p < c
                 /\ \A o \in At("output", n) : s < o /\ o < c

----------------------------------------------------------------------------
(* C5: every time a validate node invokes its repair node, a start event    *)
(* for the repair node is emitted before the repair executes and a complete *)
(* event for it after the repair returns, before the next attempt of the    *)
(* steps begins.                                                            *)

C5_RepairStartComplete ==
    \A p \in DOMAIN trace :
        trace[p].kind = "repair" =>
            /\ \E s \in At("start", trace[p].name) : s < p
            /\ \A q \in DOMAIN trace :
                 ( /\ q > p
                   /\ trace[q].kind = "step"
                   /\ OwnerOf(trace[q].name) = OwnerOf(trace[p].name) ) =>
                      \E c \in At("complete", trace[p].name) : p < c /\ c < q

----------------------------------------------------------------------------
(* C6: after a repair node has executed inside a validate node, its         *)
(* NodeResult is stored in ctx.results under the repair node's own name,    *)
(* appears in the report's node list and is passed to onNodeComplete.       *)

C6_RepairResultRecorded ==
    \A p \in DOMAIN trace :
        (trace[p].kind = "repair" /\ trace[p].status # "throw") =>
            /\ ctxResults[trace[p].name] # NoResult
            /\ \E k \in 1..Len(nodeResults) : nodeResults[k].name = trace[p].name
            /\ At("complete", trace[p].name) # {}

----------------------------------------------------------------------------
(* Reading the trace of one validate node *)

\* the validate nodes of the blueprint, by position
ValidateNodes == { k \in DOMAIN bp : bp[k].type = "validate" }

\* the retries the node at position k asks for, 2 when it names none
RetriesAsked(k) ==
    IF bp[k].maxRetries = <<>> THEN 2 ELSE bp[k].maxRetries[1]

\* positions of the step calls of attempt a of the validate node at k
StepsOf(k, a) == { p \in At("step", bp[k].name) : trace[p].att = a }

\* attempt a of node k ran every step and every step succeeded
AttemptPassed(k, a) ==
    /\ Cardinality(StepsOf(k, a)) = Len(bp[k].steps)
    /\ \A p \in StepsOf(k, a) : trace[p].status = "success"

\* attempt a of node k ended with a failing step
AttemptFailed(k, a) ==
    \E p \in StepsOf(k, a) : trace[p].status = "failure"

\* the attempts of node k that have begun
AttemptsOf(k) == { trace[p].att : p \in At("step", bp[k].name) }

\* the result recorded for the node at k, NoResult while there is none
RecordedAt(k) ==
    IF k <= Len(nodeResults) THEN nodeResults[k].result ELSE NoResult

----------------------------------------------------------------------------
(* C7: a validate node with maxRetries >= 1 whose steps fail on the first   *)
(* attempt and all succeed on the second returns success, the step list is  *)
(* attempted exactly twice, and the repair node executes exactly once,      *)
(* between the two attempts.                                                *)

C7_FailThenSucceed ==
    \A k \in ValidateNodes :
        (RetriesAsked(k) >= 1 /\ AttemptFailed(k, 0) /\ AttemptPassed(k, 1)) =>
            /\ RecordedAt(k).status = "success"
            /\ AttemptsOf(k) = {0, 1}
            /\ Cardinality(At("repair", bp[k].onFailure)) = 1
            /\ \A r \in At("repair", bp[k].onFailure) :
                 /\ \A p \in StepsOf(k, 0) : p < r
                 /\ \A p \in StepsOf(k, 1) : r < p

\* a returned run whose validate node failed once, was repaired and passed
C7_Witness ==
    /\ Returned
    /\ 1 \in ValidateNodes
    /\ Len(bp[1].steps) = 2
    /\ AttemptFailed(1, 0)
    /\ AttemptPassed(1, 1)
    /\ At("repair", bp[1].onFailure) # {}
    /\ finalReport.nodes[1].result.status = "success"

----------------------------------------------------------------------------
(* C8: if every attempt of a validate node fails, the step list is          *)
(* attempted exactly maxRetries+1 times (maxRetries defaulting to 2), the   *)
(* repair node is executed exactly maxRetries times and never after the     *)
(* final attempt, and the validate result is failure carrying the error of  *)
(* the first failing step of the final attempt.                             *)

\* every attempt 0..maxRetries of the node at k has failed
AllAttemptsFailed(k) == \A a \in 0..RetriesAsked(k) : AttemptFailed(k, a)

\* the failing step result of the attempt that ran last
LastFailedStep == stepResults[Len(stepResults)]

\* what C8 says about the attempts and the repairs of node k
C8_Attempts(k) ==
    /\ AttemptsOf(k) = 0..RetriesAsked(k)
    /\ Cardinality(At("repair", bp[k].onFailure)) = RetriesAsked(k)
    /\ \A r \in At("repair", bp[k].onFailure) :
         /\ trace[r].att < RetriesAsked(k)
         /\ \A p \in StepsOf(k, RetriesAsked(k)) : r < p
    /\ RecordedAt(k).status = "failure"

\* the claim as stated: the result carries the failing step's error
C8_ExhaustedCarriesStepError ==
    \A k \in ValidateNodes :
        AllAttemptsFailed(k) =>
            /\ C8_Attempts(k)
            /\ (k = i => RecordedAt(k).error = LastFailedStep.error)

\* amended: ... carrying the error of the first failing step of the final
\* attempt, or "Validation failed after max retries" when that step's result
\* has no error
C8_ExhaustedCarriesStepErrorOrDefault ==
    \A k \in ValidateNodes :
        AllAttemptsFailed(k) =>
            /\ C8_Attempts(k)
            /\ (k = i => RecordedAt(k).error =
                    IF LastFailedStep.error = Undefined
                    THEN "Validation failed after max retries"
                    ELSE LastFailedStep.error)

\* a validate node without maxRetries failed three attempts around two
\* repairs, the last attempt at its second step, which carries an error
C8_Witness ==
    /\ 1 \in ValidateNodes
    /\ bp[1].maxRetries = <<>>
    /\ AllAttemptsFailed(1)
    /\ Cardinality(At("repair", bp[1].onFailure)) = 2
    /\ Len(stepResults) = 2
    /\ RecordedAt(1).error = "e2"

----------------------------------------------------------------------------
(* C9: if all steps of a validate attempt succeed, the validate node        *)
(* returns success at once, its output combines the outputs of that         *)
(* attempt's steps in step order, its durationMs is the sum of their        *)
(* durations, and the repair node is not invoked after that attempt; when   *)
(* the first attempt succeeds the repair node is never invoked at all.      *)

\* the successful attempt's step outputs, one per line: stepResults holds one
\* character of output per step
OutputsInOrder(out) ==
    /\ Len(out) = 2 * Len(stepResults) - 1
    /\ \A j \in 1..Len(stepResults) : out[2 * j - 1] = stepResults[j].output[1]
    /\ \A j \in 1..(Len(stepResults) - 1) : out[2 * j] = "\n"

\* step j takes j ms, so n steps take n(n+1)/2 ms
DurationOfSteps(n) == (n * (n + 1)) \div 2

C9_SuccessCombinesSteps ==
    \A k \in ValidateNodes : \A a \in AttemptsOf(k) :
        (Len(bp[k].steps) > 0 /\ AttemptPassed(k, a)) =>
            /\ RecordedAt(k).status = "success"
            /\ \A b \in AttemptsOf(k) : b <= a
            /\ \A r \in At("repair", bp[k].onFailure) :
                 trace[r].att < a /\ \A p \in StepsOf(k, a) : r < p
            /\ (a = 0 => At("repair", bp[k].onFailure) = {})
            /\ k = i =>
                 /\ OutputsInOrder(RecordedAt(k).output)
                 /\ RecordedAt(k).durationMs = DurationOfSteps(Len(bp[k].steps))

\* a validate node of two steps passed on its first attempt
C9_Witness ==
    /\ 1 \in ValidateNodes
    /\ Len(bp[1].steps) = 2
    /\ AttemptPassed(1, 0)
    /\ RecordedAt(1) = Result("success", <<"1", "\n", "2">>, 3, Undefined)
    /\ At("repair", bp[1].onFailure) = {}

----------------------------------------------------------------------------
(* C10: within one validate attempt the steps run in list order and the     *)
(* first step that returns failure ends the attempt: no later step of that  *)
(* attempt is executed.                                                     *)

C10_StepsInOrderUntilFailure ==
    \A k \in ValidateNodes : \A a \in AttemptsOf(k) :
        /\ \A p \in StepsOf(k, a) :
             trace[p].step = Cardinality({ q \in StepsOf(k, a) : q <= p })
        /\ \A p, q \in StepsOf(k, a) :
             trace[p].status = "failure" => q <= p

\* an attempt whose first step failed, with a second step left unexecuted
C10_Witness ==
    /\ 1 \in ValidateNodes
    /\ Len(bp[1].steps) = 2
    /\ Cardinality(StepsOf(1, 0)) = 1
    /\ AttemptFailed(1, 0)
    /\ StepsOf(1, 1) # {}

----------------------------------------------------------------------------
(* C11: nodes execute strictly in blueprint list order with no overlap:     *)
(* node i+1, the evaluation of its skip predicate included, does not begin  *)
(* until node i's result has been written to ctx.results, so every node     *)
(* observes the results of all earlier nodes.                               *)

\* the run stands inside the loop of executeBlueprint, at or in node i
InNode == pc \in {"loop", "steps", "repair"}

\* a trace entry that is a call of code of a node
IsCall(e) == e.kind \in CallKinds

\* the calls of bodies, steps and repairs, in the order they were made
Calls == SelectSeq(trace, IsCall)

C11_NodesInListOrder ==
    /\ \A k \in 1..(Len(Calls) - 1) :
         OwnerOf(Calls[k].name) <= OwnerOf(Calls[k + 1].name)
    /\ InNode =>
         /\ Len(nodeResults) = i - 1
         /\ \A m \in 1..(i - 1) :
              /\ ctxResults[bp[m].name] # NoResult
              /\ ctxResults[bp[m].name] = nodeResults[m].result
    /\ \A p \in DOMAIN trace :
         trace[p].kind \in CallKinds =>
             \A m \in 1..(OwnerOf(trace[p].name) - 1) :
                 ctxResults[bp[m].name] # NoResult

\* the body of the second node has been called with the first node's result
\* in ctx.results
C11_Witness ==
    /\ Len(bp) = 2
    /\ At("body", NodeName(2)) # {}
    /\ ctxResults[NodeName(1)].status = "success"
    /\ ctxResults[NodeName(2)] # NoResult

----------------------------------------------------------------------------
(* C12: for every node whose skip predicate evaluates true, the node's body *)
(* is not executed, the recorded result has status skipped and durationMs   *)
(* 0, the result is emitted, and the run continues with the next node: a    *)
(* skipped result never halts the run.                                      *)

C12_SkippedContinues ==
    \A k \in 1..Len(nodeResults) :
        nodeResults[k].result.status = "skipped" =>
            /\ nodeResults[k].result.durationMs = 0
            /\ nodeResults[k].result.output = <<>>
            /\ ctxResults[bp[k].name] = nodeResults[k].result
            /\ \A p \in DOMAIN trace :
                 trace[p].kind \in CallKinds => OwnerOf(trace[p].name) # k
            /\ At("complete", bp[k].name) # {}
            /\ i = k => (k = Len(bp) \/ exc)

\* a returned run of two nodes whose first node was skipped and whose second
\* node ran
C12_Witness ==
    /\ Returned
    /\ Len(bp) = 2
    /\ Len(finalReport.nodes) = 2
    /\ finalReport.nodes[1].result.status = "skipped"
    /\ At("body", NodeName(2)) # {}
    /\ At("body", NodeName(1)) = {}

----------------------------------------------------------------------------
(* C13: once an entry for a node name has been written into ctx.results,   *)
(* no later step of the engine overwrites or removes that entry.            *)

\* a step keeps every entry ctx.results holds
EntriesKept ==
    \A n \in Names : ctxResults[n] # NoResult => ctxResults'[n] = ctxResults[n]

\* the node names of the blueprint differ from one another
UniqueNames == \A j, k \in DOMAIN bp : j # k => bp[j].name # bp[k].name

\* the claim as stated, for every blueprint
C13_EntryNeverOverwritten == [][EntriesKept]_vars

\* amended: in a run of a blueprint whose node names are unique, once an
\* entry has been written no later step overwrites or removes it
C13_EntryNeverOverwrittenUniqueNames == [][UniqueNames => EntriesKept]_vars

\* two nodes of different names have both written their entries
C13_Witness ==
    /\ UniqueNames
    /\ Len(bp) = 2
    /\ ctxResults[bp[1].name].status = "success"
    /\ ctxResults[bp[2].name].status = "failure"

----------------------------------------------------------------------------
(* Reading the releases of a sandbox *)

\* positions of the release operations of one kind
ReleasesOf(op) == { p \in DOMAIN releases : releases[p].op = op }

\* the teardown() call c is the one that set tornDown and has resolved
FirstCallResolved(c) ==
    /\ tpc[c] = "resolved"
    /\ \E p \in DOMAIN releases : releases[p].by = c

\* the release operations of teardown(), in the order the code issues them
ReleaseOps ==
    IF backend = "remote" THEN <<"deleteSession", "delete">>
    ELSE <<"worktreeRemove", "rm", "branchDelete">>

\* the resources no successful release operation has freed
NotFreed ==
    { r \in ResourcesOf(backend) :
        \A p \in DOMAIN releases : releases[p].ok => r \notin Freed(releases[p].op) }

----------------------------------------------------------------------------
(* C14: for any sandbox, local or remote, any number of teardown() calls,   *)
(* sequential or overlapping, raises no error and releases the backend      *)
(* resources at most once: the second and later calls are silent no-ops,    *)
(* and the remote container delete is issued exactly once.                  *)

C14_TeardownIdempotent ==
    /\ \A c \in TeardownCalls : tpc[c] # "rejected"
    /\ \A p, q \in DOMAIN releases :
         /\ releases[p].op = releases[q].op => p = q
         /\ releases[p].by = releases[q].by
    /\ (backend = "remote" /\ \A c \in TeardownCalls : tpc[c] = "resolved") =>
         Cardinality(ReleasesOf("delete")) = 1

\* overlapping calls on a remote sandbox: one call has resolved as a no-op
\* while the call that set tornDown still awaits the container delete
C14_Witness ==
    /\ backend = "remote"
    /\ \E c, d \in TeardownCalls :
         /\ c # d
         /\ tpc[c] = "resolved"
         /\ tpc[d] = "delete"
         /\ \A p \in DOMAIN releases : releases[p].by = d

----------------------------------------------------------------------------
(* C15: when remote sandbox creation fails in the bootstrap sequence after  *)
(* the container was provisioned (clone, branch creation or checkout), the  *)
(* container delete is issued before the error reaches the caller, and the  *)
(* error that reaches the caller is the original bootstrap error even if    *)
(* the delete itself fails.                                                 *)

C15_BootstrapFailureDeletes ==
    /\ (cpc = "cleanup") => (createError = "none" /\ caught \in BootstrapNames)
    /\ (cpc = "failed" /\ caught # "none") =>
         /\ Len(releases) = 1
         /\ releases[1].op = "delete"
         /\ releases[1].by = 0
         /\ releases[1].ok => resources = {}
         /\ createError = caught
         /\ createError \in BootstrapNames

\* the branch creation failed, the delete failed too, and the caller got the
\* error of the branch creation
C15_Witness ==
    /\ backend = "remote"
    /\ cpc = "failed"
    /\ caught = "createBranch"
    /\ releases = <<Release("delete", FALSE, 0)>>
    /\ createError = "createBranch"

----------------------------------------------------------------------------
(* C16: whenever sandbox creation fails after the isolation resource has    *)
(* been provisioned and before the sandbox is returned (remote: after the   *)
(* container was created, session set-up included; local: after the working *)
(* directory was created), the provisioned resource has been deleted by the *)
(* time the caller observes the error: no failed creation leaves an         *)
(* orphaned resource.  Stated for the creations whose deletes the backend   *)
(* has carried out.                                                         *)

C16_NoOrphanAfterFailedCreation ==
    (cpc = "failed" /\ \A p \in DOMAIN releases : releases[p].ok) =>
        resources = {}

----------------------------------------------------------------------------
(* C17: when the first teardown() call on a sandbox has resolved, every     *)
(* backend resource of that sandbox has been released (remote: session and  *)
(* container deleted; local: worktree, working directory and branch         *)
(* removed).                                                                *)

----------------------------------------------------------------------------
(* C18: for both backends, exec with a cwd that resolves outside the        *)
(* sandbox root throws a confinement violation before any execution         *)
(* attempt: no local process is spawned, no remote session command issued.  *)

\* the path p stands for does not lie at or below sandbox.workDir
Outside(p) ==
    LET r == Resolve(p)
        w == Resolve(WorkDir)
    IN  ~(Len(r) >= Len(w) /\ SubSeq(r, 1, Len(w)) = w)

C18_OutsideCwdRejected ==
    (lastExec.called /\ Outside(lastExec.cwd)) =>
        /\ lastExec.threw = "confinement"
        /\ ~lastExec.executed

\* exec of a remote sandbox was called with cwd <workDir>/.. and threw the
\* confinement violation
C18_Witness ==
    /\ backend = "remote"
    /\ lastExec.called
    /\ lastExec.cwd = Path(TRUE, <<"r", "..">>)
    /\ lastExec.argv = <<"ls">>
    /\ lastExec.threw = "confinement"

----------------------------------------------------------------------------
(* C19: for both backends, exec validates every key of the env map against  *)
(* [A-Za-z_][A-Za-z0-9_]* before building any command representation, and   *)
(* throws without executing anything if any key is invalid.                 *)

C19_BadEnvKeyRejected ==
    (lastExec.called /\ HasBadKey(lastExec.env)) =>
        /\ lastExec.threw \in {"envKey", "confinement"}
        /\ ~lastExec.executed

----------------------------------------------------------------------------
(* C20: for both backends, exec throws only for environment-key validation  *)
(* failures and confinement violations; for every other condition met while *)
(* running the command (non-zero exit, timeout, or an error reported by the *)
(* backend) it returns an ExecResult instead of throwing.  Stated for the   *)
(* calls whose argv is not empty.                                           *)

C20_ThrowsOnlyForValidation ==
    (lastExec.called /\ lastExec.argv # <<>>) =>
        /\ lastExec.threw \in {"none", "envKey", "confinement"}
        /\ lastExec.executed =>
             (lastExec.threw = "none" /\ lastExec.result # NoExecResult)

----------------------------------------------------------------------------
(* C22: with push enabled, the push/PR flow never raises and always yields  *)
(* a PushResult in exactly one of four states: token missing and push       *)
(* failed (pushed = false, error set, no prUrl), PR creation failed         *)
(* (pushed = true, error set, no prUrl), both succeeded (pushed = true,     *)
(* prUrl set, no error).                                                    *)

\* the push flow of this run has returned
PushReturned ==
    /\ harness = "h3"
    /\ optsPush
    /\ pc \in {"report", "teardown", "done"}
    /\ \E p \in DOMAIN trace : trace[p].kind = "push"

C22_PushResultFourStates ==
    PushReturned =>
        /\ ~exc \/ pc # "report"
        /\ \/ ~pushResult.pushed /\ pushResult.error # Undefined
                                  /\ pushResult.prUrl = Undefined
           \/ pushResult.pushed /\ pushResult.error # Undefined
                                 /\ pushResult.prUrl = Undefined
           \/ pushResult.pushed /\ pushResult.error = Undefined
                                 /\ pushResult.prUrl # Undefined

----------------------------------------------------------------------------
(* C25: if a node body (gate check, exact command, agent executor call or   *)
(* validate step) throws, the engine does not catch it: executeBlueprint    *)
(* rejects, no further node code executes, no NodeResult is synthesised for *)
(* the node, and no report is returned.                                     *)

C25_ThrowPropagates ==
    \A p \in DOMAIN Calls :
        Calls[p].status = "throw" =>
            /\ p = Len(Calls)
            /\ exc
            /\ pc \in {"teardown", "done"}
            /\ i = OwnerOf(Calls[p].name)
            /\ Len(nodeResults) = i - 1
            /\ ctxResults[bp[i].name] = NoResult
            /\ ~finalReport.made
            /\ settled # "returned"

\* the first of two nodes returned a success, a step of the second, a
\* validate node, threw, and the run has ended rejected without a report
C25_Witness ==
    /\ Len(bp) = 2
    /\ pc = "done"
    /\ settled = "rejected"
    /\ Len(nodeResults) = 1
    /\ nodeResults[1].result.status = "success"
    /\ Len(Calls) = 2
    /\ Calls[2].kind = "step"
    /\ Calls[2].status = "throw"

----------------------------------------------------------------------------
(* C26: outside the validate node nothing is retried: in one run the body   *)
(* of every gate, exact and delegated node of the blueprint is invoked at   *)
(* most once, whatever its result.                                          *)

C26_BodyAtMostOnce ==
    \A k \in DOMAIN bp :
        bp[k].type # "validate" => Cardinality(At("body", bp[k].name)) <= 1

\* the run is over, the body of the first node, a delegated node, returned a
\* failure and was invoked exactly once
C26_Witness ==
    /\ pc = "done"
    /\ Len(bp) = 2
    /\ bp[1].type = "agentic"
    /\ Cardinality(At("body", bp[1].name)) = 1
    /\ \A p \in At("body", bp[1].name) : trace[p].status = "failure"

----------------------------------------------------------------------------
(* C27: running the blueprint [exact install that always succeeds,          *)
(* validate(one step that fails once then succeeds, repair node,            *)
(* maxRetries = 2)] with runId deadbeef and blueprint name demo uses branch *)
(* harness/deadbeef/demo and returns a report with exactly 2 node entries,  *)
(* both with status success.                                                *)

\* the calls of the step, in the order they were made
StepCalls == SelectSeq(Calls, LAMBDA e : e.kind = "step")

\* so far the step has behaved as the scenario says: its first call failed
\* and every later call succeeded
FailsOnceThenSucceeds ==
    \A n \in DOMAIN StepCalls :
        StepCalls[n].status = IF n = 1 THEN "failure" ELSE "success"

\* the nodes of the scenario carry no skip predicate: none was skipped
NoneSkipped ==
    \A k \in DOMAIN nodeResults : nodeResults[k].result.status # "skipped"

----------------------------------------------------------------------------
(* C21: for both sandbox backends, when a command exceeds its timeout, exec *)
(* returns (does not throw) a result with timedOut = true and a non-zero    *)
(* exit code.                                                               *)

\* the ways a command can end in which it ran longer than execOpts.timeout
TimeoutOutcomes == {"timeout", "timeoutExitN", "timeoutExit0"}

C21_TimeoutReturned ==
    (lastExec.called /\ lastExec.ended \in TimeoutOutcomes) =>
        /\ lastExec.threw = "none"
        /\ lastExec.result.timedOut
        /\ lastExec.result.exitCode # 0

----------------------------------------------------------------------------
(* C23: a remote sandbox creates exactly one session over its whole         *)
(* lifetime; every exec call runs its command in that same session (no exec *)
(* creates or deletes a session), and the session is deleted at most once,  *)
(* only inside the sandbox's teardown.                                      *)

\* positions of the operations of one name asked of the backend
OpsNamed(name) == { p \in DOMAIN ops : ops[p].op = name }

C23_OneSession ==
    /\ Cardinality(OpsNamed("createSession")) <= 1
    /\ cpc = "ready" => Cardinality(OpsNamed("createSession")) = 1
    /\ \A p \in OpsNamed("createSession") : ops[p].by = "factory"
    /\ \A p \in OpsNamed("executeSessionCommand") :
         \E q \in OpsNamed("createSession") : q < p /\ ops[q].arg = ops[p].arg
    /\ OpsNamed("deleteSession") = {}
    /\ Cardinality(ReleasesOf("deleteSession")) <= 1
    /\ \A p \in ReleasesOf("deleteSession") : releases[p].by \in TeardownCalls

\* the factory created the session, exec ran a command in it, and teardown,
\* called twice, asked once for the session to be deleted
C23_Witness ==
    /\ cpc = "ready"
    /\ lastExec.executed
    /\ Cardinality(OpsNamed("createSession")) = 1
    /\ Cardinality(OpsNamed("executeSessionCommand")) = 1
    /\ \A c \in {1, 2} : tpc[c] = "resolved"
    /\ Cardinality(ReleasesOf("deleteSession")) = 1

----------------------------------------------------------------------------
(* C24: for both sandbox backends, uploadFiles resolves each target path    *)
(* against the sandbox root and confinement-checks it before any write: no  *)
(* file is ever written to a location outside the sandbox root, and a batch *)
(* containing a path that escapes the root throws.                          *)

\* the segments s lie at or below the sandbox root
UnderRoot(s) ==
    LET w == Resolve(WorkDir)
    IN  Len(s) >= Len(w) /\ SubSeq(s, 1, Len(w)) = w

\* positions of the files of the batch whose path leaves the sandbox root
Escaping == { k \in DOMAIN lastCall.files : ~UnderRoot(UploadTarget(lastCall.files[k]).segs) }

\* positions of the file writes asked of the backend
Writes == OpsNamed("writeFile") \cup OpsNamed("uploadFile")

C24_UploadConfined ==
    lastCall.method = "uploadFiles" =>
        /\ \A p \in Writes : UnderRoot(ops[p].arg.segs)
        /\ Escaping # {} =>
             /\ lastCall.threw \in {"confinement", "backend"}
             /\ \A k \in Escaping : Cardinality(Writes) < k

\* uploadFiles of a local sandbox, given a file inside the root and then the
\* file ../x, wrote the first and threw the confinement violation
C24_Witness ==
    /\ backend = "local"
    /\ lastCall.method = "uploadFiles"
    /\ lastCall.files = <<Path(FALSE, <<"x">>), Path(FALSE, <<"..", "x">>)>>
    /\ lastCall.threw = "confinement"
    /\ Cardinality(Writes) = 1
    /\ \A p \in Writes : ops[p].arg = Path(TRUE, <<"r", "x">>)

----------------------------------------------------------------------------
(* C28: for both sandbox backends, snapshot() succeeds and returns an       *)
(* identifier even when the working tree has no pending changes: it still   *)
(* records a snapshot (an allow-empty commit) rather than doing nothing or  *)
(* failing.  Stated for a backend that answers the git operations.          *)

----------------------------------------------------------------------------
(* C29: in every sanitisation pipeline that both truncates and redacts text *)
(* (the console reporter and the JSON reporter), truncation is applied      *)
(* first and redaction is applied to the already truncated text, so the     *)
(* discarded tail is never scanned.                                         *)

C29_TruncateBeforeRedact ==
    sanitized.called =>
        /\ sanitized.scanned = Truncate(sanitized.text, MaxOutputBytes)
        /\ Len(sanitized.scanned) <= MaxOutputBytes + 1

----------------------------------------------------------------------------
(* C30: for every root path: assertPathConfined(root, root) succeeds;       *)
(* assertPathConfined of the sibling path formed by appending a character   *)
(* to root (root + "2") fails; and assertPathConfined of root's parent      *)
(* (root/..) fails.                                                         *)

\* what the claim says of one call
SelfPassesOthersFail ==
    IF confined.kind = "self" THEN ~confined.threw ELSE confined.threw

\* the claim as stated, for every root
C30_SelfSiblingParent == confined.called => SelfPassesOthersFail

\* the text of root ends in the name of a directory: not in ".", ".." or a
\* separator, and root is neither empty nor the root of the file system
EndsInName(root) ==
    root.segs # <<>> /\ root.segs[Len(root.segs)] \notin {".", ".."}

\* amended: the same for every root path whose text ends in a directory name
C30_SelfSiblingParentOfNamedRoot ==
    (confined.called /\ EndsInName(confined.root)) => SelfPassesOthersFail

\* assertPathConfined("/r2", "/r") has thrown
C30_Witness ==
    /\ confined.called
    /\ confined.root = Path(TRUE, <<"r">>)
    /\ confined.kind = "sibling"
    /\ confined.candidate = Path(TRUE, <<"r2">>)
    /\ confined.threw

----------------------------------------------------------------------------
(* C31: for every text and every env map, the output of redact contains no  *)
(* env value of length >= 8 as a verbatim substring, and no env value       *)
(* shorter than 8 characters is replaced.                                   *)

\* value occurs in text
Contains(text, value) ==
    \E k \in 1..(Len(text) - Len(value) + 1) :
        SubSeq(text, k, k + Len(value) - 1) = value

\* the entries of env whose value has n characters or more
AtLeast(env, n) == SelectSeq(env, LAMBDA e : Len(e.value) >= n)

C31_RedactHidesLongKeepsShort ==
    redacted.called =>
        /\ \A k \in DOMAIN redacted.env :
              Len(redacted.env[k].value) >= 8
                  => ~Contains(redacted.result, redacted.env[k].value)
        /\ redacted.result = Redact(redacted.output, AtLeast(redacted.env, 8))

----------------------------------------------------------------------------
(* C32: for every non-empty argument vector, splitting shellQuote(argv)     *)
(* under POSIX single-quote rules yields exactly argv again (same length,   *)
(* same elements), including empty-string elements and elements containing  *)
(* single quotes, backticks, dollar signs or spaces; for the empty vector   *)
(* shellQuote fails.                                                        *)

\* the fields a POSIX shell splits the command line s into, from position k:
\* inside single quotes every character stands for itself up to the next
\* quote; outside, a backslash keeps the next character, a blank ends a field
\* that has begun, and a dollar sign or a backtick begins an expansion
RECURSIVE PosixSplit(_, _, _, _, _, _)
PosixSplit(s, k, fields, cur, inField, inQuote) ==
    IF k > Len(s)
    THEN IF inQuote THEN fields \o <<cur \o <<"<unterminated>">>>>
         ELSE IF inField THEN fields \o <<cur>> ELSE fields
    ELSE IF inQuote
    THEN IF s[k] = "'" THEN PosixSplit(s, k + 1, fields, cur, TRUE, FALSE)
         ELSE PosixSplit(s, k + 1, fields, cur \o <<s[k]>>, TRUE, TRUE)
    ELSE CASE s[k] = "'" -> PosixSplit(s, k + 1, fields, cur, TRUE, TRUE)
           [] s[k] = " " ->
                IF inField THEN PosixSplit(s, k + 1, fields \o <<cur>>, <<>>, FALSE, FALSE)
                ELSE PosixSplit(s, k + 1, fields, cur, FALSE, FALSE)
           [] s[k] = "\\" ->
                IF k < Len(s)
                THEN PosixSplit(s, k + 2, fields, cur \o <<s[k + 1]>>, TRUE, FALSE)
                ELSE PosixSplit(s, k + 1, fields, cur \o <<"\\">>, TRUE, FALSE)
           [] s[k] \in {"$", "backtick"} ->
                PosixSplit(s, k + 1, fields, cur \o <<"<expansion>">>, TRUE, FALSE)
           [] OTHER -> PosixSplit(s, k + 1, fields, cur \o <<s[k]>>, TRUE, FALSE)

C32_QuoteRoundTrip ==
    quoted.called =>
        IF Len(quoted.argv) = 0 THEN quoted.threw
        ELSE /\ ~quoted.threw
             /\ PosixSplit(quoted.out, 1, <<>>, <<>>, FALSE, FALSE) = quoted.argv

\* shellQuote(["'$", ""]) has returned ''\''$' ''
C32_Witness ==
    /\ quoted.called
    /\ quoted.argv = << <<"'", "$">>, <<>> >>
    /\ quoted.out = <<"'", "'", "\\", "'", "'", "$", "'", " ", "'", "'">>
    /\ ~quoted.threw

----------------------------------------------------------------------------
(* C33: in runHarness the phases of a run that returns occur in this order: *)
(* all node events of the blueprint, then (only if push is enabled) the     *)
(* push/PR flow, then exactly one reporter.runComplete, then                *)
(* sandbox.teardown; no sandbox operation is issued after teardown has been *)
(* invoked, and with push disabled no push or PR call is made and the       *)
(* report has no pushResult.                                                *)

PhaseKinds == {"push", "runComplete", "teardown"}

\* the calls pushAndCreatePR makes
PushCallKinds == {"pushBranch", "gitPush", "createPR"}

\* the kinds of the push flow, runComplete and teardown in the trace, in order
Phases ==
    LET h == SelectSeq(trace, LAMBDA e : e.kind \in PhaseKinds)
    IN  [k \in DOMAIN h |-> h[k].kind]

\* the push flow with its calls, runComplete and teardown are the last entries
\* of the trace
PhasesLast ==
    LET n == Len(SelectSeq(trace, LAMBDA e : e.kind \in PhaseKinds \cup PushCallKinds))
    IN  \A k \in (Len(trace) - n + 1)..Len(trace) :
            trace[k].kind \in PhaseKinds \cup PushCallKinds

C33_PhasesInOrder ==
    /\ Returned =>
          /\ Phases \in { <<"push", "runComplete", "teardown">>,
                          <<"runComplete", "teardown">> }
          /\ PhasesLast
          /\ trace[Len(trace) - 1].kind = "runComplete"
          /\ Phases[1] = "push" => optsPush
    /\ teardowns > 0 =>
          /\ trace[Len(trace)].kind = "teardown"
          /\ \A k \in 1..(Len(trace) - 1) : trace[k].kind # "teardown"
    /\ ~optsPush =>
          /\ \A k \in DOMAIN trace : trace[k].kind \notin {"push"} \cup PushCallKinds
          /\ pushResult = NoPush
          /\ finalReport.pushResult = NoPush

\* a run of the revision with the push flow has returned after a node body, its
\* nodeComplete, the push flow, runComplete and teardown, in this order
C33_Witness ==
    /\ Returned
    /\ harness = "h3"
    /\ optsPush
    /\ Len(trace) >= 4
    /\ Phases = <<"push", "runComplete", "teardown">>
    /\ [k \in DOMAIN trace |-> trace[k].kind]
         = <<"body", "complete", "push", "gitPush", "createPR", "runComplete",
             "teardown">>

----------------------------------------------------------------------------
(* C34: in the push/PR flow, a missing token causes no push attempt         *)
(* (neither sandbox.pushBranch nor sandbox.exec is called), and a failed    *)
(* push causes no PR-creation attempt: PR creation is attempted only after  *)
(* a push that succeeded.                                                   *)

C34_PushThenPR ==
    \A k \in DOMAIN trace :
        /\ (trace[k].kind = "push" /\ trace[k].status = "no token") =>
              \A m \in (k + 1)..Len(trace) : trace[m].kind \notin PushCallKinds
        /\ trace[k].kind = "createPR" =>
              /\ k > 1
              /\ trace[k - 1].kind \in {"pushBranch", "gitPush"}
              /\ trace[k - 1].status = "ok"
        /\ (trace[k].kind \in {"pushBranch", "gitPush"} /\ trace[k].status = "fail") =>
              \A m \in (k + 1)..Len(trace) : trace[m].kind # "createPR"

\* a push flow with a token whose sandbox.pushBranch failed has returned, and
\* the run went on to runComplete without a createPR
C34_Witness ==
    /\ Returned
    /\ \E k \in DOMAIN trace :
          /\ trace[k].kind = "push" /\ trace[k].status = "token"
          /\ trace[k + 1].kind = "pushBranch" /\ trace[k + 1].status = "fail"
          /\ trace[k + 2].kind = "runComplete"
    /\ pushResult = PushRes(FALSE, Undefined, "git push failed")

----------------------------------------------------------------------------
(* C35: runHarness runs the push/PR flow only when the blueprint run ended  *)
(* without a failed node: after a run that was halted by a node failure,    *)
(* nothing is pushed and no PR is created even if push is enabled.          *)

\* the blueprint run was halted by the failure of a node
HaltedByFailure ==
    \E k \in DOMAIN nodeResults : nodeResults[k].result.status = "failure"

C35_NoPushAfterFailure ==
    HaltedByFailure =>
        \A k \in DOMAIN trace : trace[k].kind \notin {"push"} \cup PushCallKinds

----------------------------------------------------------------------------
(* C36: inside a validate node the outcome of the repair invocation does    *)
(* not affect control flow: even when the repair node returns failure, the  *)
(* steps are re-attempted while retries remain and the run is not halted by *)
(* the repair node's failure status; only the validate node's own final     *)
(* result can halt the run.                                                 *)

\* the repair calls in the trace that returned a failure
FailedRepairs ==
    { p \in DOMAIN trace : trace[p].kind = "repair" /\ trace[p].status = "failure" }

C36_RepairFailureIgnored ==
    \A p \in FailedRepairs :
        /\ IF p = Len(trace)
           THEN pc = "steps" /\ ~exc /\ stepResults = <<>>
                             /\ attempt = trace[p].att + 1
           ELSE /\ trace[p + 1].kind = "step"
                /\ OwnerOf(trace[p + 1].name) = OwnerOf(trace[p].name)
                /\ trace[p + 1].att = trace[p].att + 1
                /\ trace[p + 1].step = 1
        /\ \A k \in DOMAIN nodeResults :
              nodeResults[k].result.status = "failure" =>
                  /\ nodeResults[k].name # trace[p].name
                  /\ bp[k].type = "validate" => nodeResults[k].result.error # "unfixed"

\* the repair of a validate node returned a failure, the steps ran again and
\* passed, and the run returned with the node's success
C36_Witness ==
    /\ Returned
    /\ FailedRepairs # {}
    /\ \E k \in DOMAIN nodeResults :
          /\ bp[k].type = "validate"
          /\ nodeResults[k].result.status = "success"
          /\ \E p \in FailedRepairs : OwnerOf(trace[p].name) = k

----------------------------------------------------------------------------
(* C37: at the moment a validate node's repair node derives its prompt from *)
(* the context, the context results map holds, under the validate node's    *)
(* own name, the result of the attempt that just failed, so a repair prompt *)
(* that reads ctx.results[<validate node name>] sees that failure output.   *)

\* the agent executor is about to run the repair node of the validate node i
C37_RepairSeesFailedAttempt ==
    pc = "repair" =>
        /\ ctxResults[bp[i].name].status = "failure"
        /\ ctxResults[bp[i].name].output = JoinOutputs(stepResults)

----------------------------------------------------------------------------
(* C38: if uploadFiles throws a confinement violation for some file of a    *)
(* batch, no file of that batch has been written: the sandbox contents are  *)
(* the same as before the call.                                             *)

C38_RejectedBatchWritesNothing ==
    (lastCall.method = "uploadFiles" /\ lastCall.threw = "confinement") =>
        \A p \in DOMAIN ops : ops[p].by # "uploadFiles"

----------------------------------------------------------------------------
(* C39: every run of executeBlueprint over a finite node list terminates    *)
(* (returns a report or propagates an exception) provided each node body,   *)
(* step and agent call returns: a validate node performs at most            *)
(* maxRetries+1 attempts of at most |steps| step executions each and at     *)
(* most maxRetries repair invocations.                                      *)

\* executeBlueprint has returned or thrown (or was never called, when the
\* sandbox could not be created)
EngineLeft == pc \in {"push", "report", "teardown", "done"}

\* the attempts, steps and repairs of every validate node within their bounds
WithinBounds ==
    \A k \in ValidateNodes :
        /\ Cardinality(AttemptsOf(k)) <= RetriesAsked(k) + 1
        /\ \A a \in AttemptsOf(k) : Cardinality(StepsOf(k, a)) <= Len(bp[k].steps)
        /\ Cardinality(At("repair", bp[k].onFailure)) <= RetriesAsked(k)

C39_TerminatesWithinBounds == <>EngineLeft /\ []WithinBounds

\* a validate node behind an exact node names no maxRetries, has used its
\* three attempts and two repairs, and executeBlueprint has returned
C39_Witness ==
    /\ Returned
    /\ Len(bp) = 2
    /\ bp[2].maxRetries = <<>>
    /\ AttemptsOf(2) = {0, 1, 2}
    /\ Cardinality(At("repair", bp[2].onFailure)) = 2
    /\ nodeResults[2].result.status = "failure"

----------------------------------------------------------------------------
(* C40: assertPathConfined throws if and only if the resolved candidate is  *)
(* neither the resolved root nor a descendant of it: no path that lies      *)
(* inside the root is rejected (whatever the names of its segments) and no  *)
(* path that lies outside the root is accepted.                             *)

\* the resolved candidate is the resolved root or lies below it
Inside(candidate, root) ==
    LET c == Resolve(candidate)
        r == Resolve(root)
    IN  Len(c) >= Len(r) /\ SubSeq(c, 1, Len(r)) = r

C40_ThrowsIffOutside ==
    confined.called =>
        (confined.threw <=> ~Inside(confined.candidate, confined.root))

====
